---- MODULE Spec2Model ----
(***************************************************************************)
(* Model of the serial transport of ble_hci (SerialUartTransport in        *)
(* _utils.py) and of the packet decoding it relies on (hci_packets.py).    *)
(*                                                                         *)
(* Threads: one reader thread per transport (the target _read), caller     *)
(* threads that run send_command / retrieve_packet / stop / close /        *)
(* __exit__ / the constructor, one timeout process per _retrieve call, and *)
(* the peer (the firmware on the other end of the serial line).            *)
(***************************************************************************)
EXTENDS Integers, Sequences, FiniteSets, TLC

\* ------------------------------------------------------------------ bounds
MaxInst == 2
MaxRetries == 1
MaxOps == 2
MaxFrames == 1
MaxParams == 2

\* ------------------------------------------------------- protocol constants
PT_COMMAND == 1
PT_ASYNC == 2
PT_EVENT == 4
EC_COMMAND_COMPLETE == 14
EC_HARDWARE_ERROR == 16
EC_NUM_COMPLETED_PACKETS == 19
EC_DATA_BUFF_OVERFLOW == 26
EC_LE_META == 62
EC_AUTH_PAYLOAD_TIMEOUT_EXPIRED == 87
\* A member of EventCode that from_bytes has no branch for (the HCI's
\* disconnection-complete event).
EC_DISCONNECT_COMPLETE == 5
LL_SUCCESS == 0
LL_ERROR_CODE_HW_FAILURE == 3

EventCodeValues ==
    {EC_COMMAND_COMPLETE, EC_HARDWARE_ERROR, EC_NUM_COMPLETED_PACKETS,
     EC_DATA_BUFF_OVERFLOW, EC_LE_META, EC_AUTH_PAYLOAD_TIMEOUT_EXPIRED,
     EC_DISCONNECT_COMPLETE}
StatusCodeValues == {LL_SUCCESS, LL_ERROR_CODE_HW_FAILURE}
EventSubcodeValues == {1, 2}

Ports == {"p1", "p2"}
Inst == 1..MaxInst
Callers == {"c1", "c2"}

\* ------------------------------------------------------------ byte helpers
\* Python slice s[k:] for a 0-based k (empty when k >= len(s)).
SliceFrom(s, k) == IF k >= Len(s) THEN <<>> ELSE SubSeq(s, k + 1, Len(s))

\* b & 0xF0, (b & 0xC) >> 2, b & 0x3 on one byte.
AndF0(b) == (b \div 16) * 16
PbBits(b) == (b \div 4) % 4
BcBits(b) == b % 4

\* None is the empty sequence, a value v is <<v>>.
None == <<>>
Some(v) == <<v>>

\* ------------------------------------------------------------------ codec
\* AsyncPacket.from_bytes: needs pkt[0..3]; IndexError when shorter.
AsyncFromBytes(pkt) ==
    IF Len(pkt) < 4
    THEN [ok |-> FALSE, err |-> "IndexError"]
    ELSE [ok |-> TRUE,
          handle |-> AndF0(pkt[1]) + pkt[2] * 256,
          pb_flag |-> PbBits(pkt[1]),
          bc_flag |-> BcBits(pkt[1]),
          length |-> pkt[3] + pkt[4] * 256,
          data |-> IF SliceFrom(pkt, 4) = <<>> THEN None ELSE Some(SliceFrom(pkt, 4))]

\* EventPacket.__init__: the three enum conversions raise ValueError on a value
\* that is no member; a falsy status / subcode (None or 0) becomes None.
EventPacketInit(evt_code, length, status, evt_params, evt_subcode) ==
    IF evt_code \notin EventCodeValues
    THEN [ok |-> FALSE, err |-> "ValueError"]
    ELSE IF status # None /\ status[1] # 0 /\ status[1] \notin StatusCodeValues
    THEN [ok |-> FALSE, err |-> "ValueError"]
    ELSE IF evt_subcode # None /\ evt_subcode[1] # 0
            /\ evt_subcode[1] \notin EventSubcodeValues
    THEN [ok |-> FALSE, err |-> "ValueError"]
    ELSE [ok |-> TRUE,
          evt_code |-> evt_code,
          length |-> length,
          status |-> IF status # None /\ status[1] # 0 THEN status ELSE None,
          evt_subcode |-> IF evt_subcode # None /\ evt_subcode[1] # 0
                          THEN evt_subcode ELSE None,
          evt_params |-> evt_params]

\* EventPacket.from_bytes, branch by branch.  se is 1-based here, so the
\* source's serialized_event[k] is se[k + 1].
EventFromBytes(se) ==
    IF Len(se) < 1 THEN [ok |-> FALSE, err |-> "IndexError"]
    ELSE IF se[1] = EC_COMMAND_COMPLETE
    THEN IF Len(se) < 6 THEN [ok |-> FALSE, err |-> "IndexError"]
         ELSE EventPacketInit(se[1], se[2], Some(se[6]), SliceFrom(se, 2), None)
    ELSE IF Len(se) < 2 THEN [ok |-> FALSE, err |-> "IndexError"]
    ELSE IF se[1] = EC_HARDWARE_ERROR
    THEN \* EventPacket(evt=...): __init__ has no parameter named evt
         [ok |-> FALSE, err |-> "TypeError"]
    ELSE IF se[1] = EC_NUM_COMPLETED_PACKETS
    THEN EventPacketInit(se[1], se[2], Some(LL_SUCCESS), SliceFrom(se, 2), None)
    ELSE IF se[1] = EC_DATA_BUFF_OVERFLOW
    THEN EventPacketInit(se[1], se[2], None, SliceFrom(se, 2), None)
    ELSE IF se[1] = EC_LE_META
    THEN IF Len(se) < 3 THEN [ok |-> FALSE, err |-> "IndexError"]
         ELSE EventPacketInit(se[1], se[2], None, SliceFrom(se, 3), Some(se[3]))
    ELSE IF se[1] = EC_AUTH_PAYLOAD_TIMEOUT_EXPIRED
    THEN EventPacketInit(se[1], se[2], None, SliceFrom(se, 2), None)
    ELSE IF Len(se) < 3 THEN [ok |-> FALSE, err |-> "IndexError"]
    ELSE EventPacketInit(se[1], se[2], Some(se[3]), SliceFrom(se, 3), None)

\* --------------------------------------------------------------- the wire
\* Commands a caller sends (already serialized: tag, opcode low, opcode high,
\* length 0) and the frames the peer puts on the line.
CmdPkts == {<<PT_COMMAND, 1, 252, 0>>, <<PT_COMMAND, 2, 252, 0>>}

\* The command-complete event frame answering command pkt: event tag, code,
\* length 4, num-packets 1, the opcode echoed, status 0.
CompleteFrame(pkt) == <<PT_EVENT, EC_COMMAND_COMPLETE, 4, 1, pkt[2], pkt[3], 0>>

NumCompletedFrame == <<PT_EVENT, EC_NUM_COMPLETED_PACKETS, 1, 0>>
HardwareErrorFrame == <<PT_EVENT, EC_HARDWARE_ERROR, 1, 0>>
\* An ACL frame for handle 0x000 with PB flag 3, BC flag 2 and two data bytes.
AsyncFrame == <<PT_ASYNC, 14, 0, 2, 0, 170, 0>>

\* Frames cut short: an event frame that stops inside its header, and a
\* command-complete frame that stops inside its payload.
TruncatedFrames ==
    {<<PT_EVENT, EC_NUM_COMPLETED_PACKETS>>, <<PT_EVENT, EC_COMMAND_COMPLETE, 4, 1>>}

UnsolicitedFrames ==
    {NumCompletedFrame, HardwareErrorFrame, AsyncFrame} \cup
    {CompleteFrame(pkt) : pkt \in CmdPkts}

\* ------------------------------------------------------------------ state
VARIABLES
    instances,      \* cls.instances: port identity -> registered transport (0: none)
    port_id,        \* per transport: its port identity ("" before construction)
    port_open,      \* per transport: self.port.is_open
    async_callback, \* per transport: an async callback is registered
    evt_callback,   \* per transport: an event callback is registered
    retries,        \* per transport: self.retries
    referenced,     \* per transport: the program still holds a reference to it
    event_packets,  \* per transport: self._event_packets, entries [evt, id]
    thread,         \* per transport: _read_thread: "none", "alive", "done"
    thread_err,     \* per transport: the exception that ended the reader ("" if none)
    kill_evt,       \* per transport: self._kill_evt
    data_lock,      \* per transport: owner of self._data_lock ("free" if none)
    port_lock,      \* per transport: owner of self._port_lock ("free" if none)
    rpc,            \* per transport: where the reader is in _read
    pkt_type,       \* per transport: _read's pkt_type (bytes read)
    read_data,      \* per transport: _read's read_data
    data_len,       \* per transport: _read's data_len
    inbuf,          \* per port: bytes received and not yet read
    written,        \* per port: command packets written and not yet seen by the peer
    peer_left,      \* frames the peer may still send unasked
    cpc,            \* per caller: where the caller is
    cop,            \* per caller: the public operation it runs
    cinst,          \* per caller: the transport it runs it on
    cpkt,           \* per caller: the packet given to _write
    cargs,          \* per caller: the arguments given to the constructor
    tries,          \* per caller: _write's tries
    timer,          \* per caller: _retrieve's timeout process: "off", "running", "expired"
    result,         \* per caller: how its last operation ended
    ops_left,       \* operations the callers may still begin
    n_appended,     \* history, per transport: events appended to the queue so far
    returned,       \* history, per transport: ids of the events _retrieve returned
    disp,           \* history, per transport: the reader's last dispatch
    last_poll,      \* history, per transport: outcome of the reader's last poll
    attempts,       \* history, per caller: _retrieve calls begun by the running _write
    timeouts,       \* history, per caller: of those, the ones that timed out
    nwrites,        \* history, per caller: port.write calls of the running _write
    start_mark,     \* history, per caller: the transport's state when the operation began
    call,           \* the call of a pure function under study: its name and arguments
    ret             \* what that call returned or raised

readerVars == <<thread, thread_err, rpc, pkt_type, read_data, data_len, disp, last_poll>>
lockVars == <<data_lock, port_lock>>
objVars == <<instances, port_id, port_open, async_callback, evt_callback, retries,
             referenced>>
wireVars == <<inbuf, written, peer_left>>
callerVars == <<cpc, cop, cinst, cpkt, cargs, tries, timer, result, ops_left,
                attempts, timeouts, nwrites, start_mark>>
queueVars == <<event_packets, n_appended, returned>>
pureVars == <<call, ret>>
vars == <<objVars, queueVars, readerVars, lockVars, kill_evt, wireVars, callerVars,
          pureVars>>

NoDispatch == [out |-> "none", type |-> <<>>, code |-> <<>>, whole |-> FALSE,
               late |-> FALSE]
NoResult == [kind |-> "none"]
NoArgs == [port |-> "", acb |-> FALSE, ecb |-> FALSE, retries |-> 0]
NoMark == [appended |-> 0, empty |-> TRUE, alive |-> FALSE, open |-> FALSE, prev |-> "none"]
NoCall == [fn |-> ""]
NoRet == [kind |-> "pending"]

\* What every initial state shares: nothing read, nothing on the line, every
\* caller idle, the histories empty.
Quiet ==
    /\ event_packets = [t \in Inst |-> <<>>]
    /\ thread_err = [t \in Inst |-> ""]
    /\ kill_evt = [t \in Inst |-> FALSE]
    /\ data_lock = [t \in Inst |-> "free"]
    /\ port_lock = [t \in Inst |-> "free"]
    /\ rpc = [t \in Inst |-> "loop"]
    /\ pkt_type = [t \in Inst |-> <<>>]
    /\ read_data = [t \in Inst |-> <<>>]
    /\ data_len = [t \in Inst |-> 0]
    /\ inbuf = [p \in Ports |-> <<>>]
    /\ written = [p \in Ports |-> <<>>]
    /\ cpc = [c \in Callers |-> "idle"]
    /\ cop = [c \in Callers |-> "none"]
    /\ cinst = [c \in Callers |-> 1]
    /\ cpkt = [c \in Callers |-> <<>>]
    /\ cargs = [c \in Callers |-> NoArgs]
    /\ tries = [c \in Callers |-> 0]
    /\ timer = [c \in Callers |-> "off"]
    /\ result = [c \in Callers |-> NoResult]
    /\ n_appended = [t \in Inst |-> 0]
    /\ returned = [t \in Inst |-> <<>>]
    /\ disp = [t \in Inst |-> NoDispatch]
    /\ last_poll = [t \in Inst |-> "none"]
    /\ attempts = [c \in Callers |-> 0]
    /\ timeouts = [c \in Callers |-> 0]
    /\ nwrites = [c \in Callers |-> 0]
    /\ start_mark = [c \in Callers |-> NoMark]

\* One transport, constructed on port p1: __init__ has opened the port and
\* _init_read_thread has started the reader.
Init ==
    /\ Quiet
    /\ instances = [p \in Ports |-> IF p = "p1" THEN 1 ELSE 0]
    /\ port_id = [t \in Inst |-> IF t = 1 THEN "p1" ELSE ""]
    /\ port_open = [t \in Inst |-> t = 1]
    /\ referenced = [t \in Inst |-> t = 1]
    /\ thread = [t \in Inst |-> IF t = 1 THEN "alive" ELSE "none"]
    /\ \E a \in BOOLEAN : async_callback = [t \in Inst |-> a /\ t = 1]
    /\ \E e \in BOOLEAN : evt_callback = [t \in Inst |-> e /\ t = 1]
    /\ \E r \in 0..MaxRetries : retries = [t \in Inst |-> IF t = 1 THEN r ELSE 0]
    /\ peer_left = MaxFrames
    /\ ops_left = MaxOps
    /\ call = NoCall /\ ret = NoRet

\* --------------------------------------------------------------- the port
\* serial.Serial.read(n) with the port's 2 s timeout: n bytes when that many
\* are there, what is there when the timeout ends the read early.
PortRead(buf, n) ==
    IF Len(buf) >= n
    THEN [data |-> SubSeq(buf, 1, n), rest |-> SubSeq(buf, n + 1, Len(buf))]
    ELSE [data |-> buf, rest |-> <<>>]

IsAlive(t) == thread[t] = "alive"

\* The bytes _read reads after the type byte to learn the payload length.
HeaderLen(ptype) == IF ptype = PT_ASYNC THEN 4 ELSE 2

\* A data_len taken from the first header byte.
DataLenFirst(ptype, hdr) == hdr[1]

\* data_len as _read computes it from the header bytes.
DataLen(ptype, hdr) == IF ptype = PT_ASYNC THEN hdr[3] + hdr[4] * 256 ELSE hdr[2]

\* An exception leaves _read: the thread ends.  The data lock is released by
\* its with statement, the port lock only by the release call.
ReaderRaise(t, err) ==
    /\ thread' = [thread EXCEPT ![t] = "done"]
    /\ thread_err' = [thread_err EXCEPT ![t] = err]

\* --------------------------------------------------------- the reader loop
\* while not kill_evt.is_set()
ReaderLoop(t) ==
    /\ IsAlive(t) /\ rpc[t] = "loop"
    /\ IF kill_evt[t]
       THEN thread' = [thread EXCEPT ![t] = "done"] /\ rpc' = rpc
       ELSE rpc' = [rpc EXCEPT ![t] = "poll"] /\ thread' = thread
    /\ UNCHANGED <<pureVars, objVars, queueVars, lockVars, kill_evt, wireVars, callerVars,
                   thread_err, pkt_type, read_data, data_len, disp, last_poll>>

\* A poll whose acquire blocks: the reader waits for the lock.
ReaderPollBlocking(t) ==
    /\ IsAlive(t) /\ rpc[t] = "poll"
    /\ IF inbuf[port_id[t]] = <<>>
       THEN /\ rpc' = [rpc EXCEPT ![t] = "loop"]
            /\ port_lock' = port_lock
       ELSE IF port_lock[t] = "free"
       THEN /\ rpc' = [rpc EXCEPT ![t] = "type"]
            /\ port_lock' = [port_lock EXCEPT ![t] = "reader"]
       ELSE /\ rpc' = [rpc EXCEPT ![t] = "port_wait"]
            /\ port_lock' = port_lock
    /\ UNCHANGED <<pureVars, objVars, queueVars, data_lock, kill_evt, wireVars, callerVars,
                   thread, thread_err, pkt_type, read_data, data_len, disp, last_poll>>

\* if self.port.in_waiting and self._port_lock.acquire(blocking=False)
ReaderPoll(t) ==
    /\ IsAlive(t) /\ rpc[t] = "poll"
    /\ IF inbuf[port_id[t]] = <<>>
       THEN /\ rpc' = [rpc EXCEPT ![t] = "loop"]
            /\ last_poll' = last_poll
            /\ port_lock' = port_lock
       ELSE IF port_lock[t] = "free"
       THEN /\ rpc' = [rpc EXCEPT ![t] = "type"]
            /\ last_poll' = [last_poll EXCEPT ![t] =
                    IF kill_evt[t] THEN "acquired_late" ELSE "acquired"]
            /\ port_lock' = [port_lock EXCEPT ![t] = "reader"]
       ELSE /\ rpc' = [rpc EXCEPT ![t] = "loop"]
            /\ last_poll' = [last_poll EXCEPT ![t] = "contended"]
            /\ port_lock' = port_lock
    /\ UNCHANGED <<pureVars, objVars, queueVars, data_lock, kill_evt, wireVars, callerVars,
                   thread, thread_err, pkt_type, read_data, data_len, disp>>

\* pkt_type = self.port.read(1); pkt_type[0]
ReaderType(t) ==
    /\ IsAlive(t) /\ rpc[t] = "type"
    /\ LET r == PortRead(inbuf[port_id[t]], 1) IN
         /\ inbuf' = [inbuf EXCEPT ![port_id[t]] = r.rest]
         /\ pkt_type' = [pkt_type EXCEPT ![t] = r.data]
         /\ IF r.data = <<>>
            THEN ReaderRaise(t, "IndexError") /\ rpc' = rpc
            ELSE rpc' = [rpc EXCEPT ![t] = "hdr"] /\ UNCHANGED <<thread, thread_err>>
    /\ UNCHANGED <<pureVars, objVars, queueVars, lockVars, kill_evt, written, peer_left,
                   callerVars, read_data, data_len, disp, last_poll>>

\* the header read and data_len
ReaderHdr(t) ==
    /\ IsAlive(t) /\ rpc[t] = "hdr"
    /\ LET n == HeaderLen(pkt_type[t][1])
           r == PortRead(inbuf[port_id[t]], n) IN
         /\ inbuf' = [inbuf EXCEPT ![port_id[t]] = r.rest]
         /\ read_data' = [read_data EXCEPT ![t] = r.data]
         /\ IF Len(r.data) < n
            THEN ReaderRaise(t, "IndexError") /\ UNCHANGED <<rpc, data_len>>
            ELSE /\ data_len' = [data_len EXCEPT ![t] = DataLen(pkt_type[t][1], r.data)]
                 /\ rpc' = [rpc EXCEPT ![t] = "payload"]
                 /\ UNCHANGED <<thread, thread_err>>
    /\ UNCHANGED <<pureVars, objVars, queueVars, lockVars, kill_evt, written, peer_left,
                   callerVars, pkt_type, disp, last_poll>>

\* read_data += self.port.read(data_len); self._port_lock.release()
ReaderPayload(t) ==
    /\ IsAlive(t) /\ rpc[t] = "payload"
    /\ LET r == PortRead(inbuf[port_id[t]], data_len[t]) IN
         /\ inbuf' = [inbuf EXCEPT ![port_id[t]] = r.rest]
         /\ read_data' = [read_data EXCEPT ![t] = read_data[t] \o r.data]
    /\ port_lock' = [port_lock EXCEPT ![t] = "free"]
    /\ rpc' = [rpc EXCEPT ![t] = "lock"]
    /\ UNCHANGED <<pureVars, objVars, queueVars, data_lock, kill_evt, written, peer_left,
                   callerVars, thread, thread_err, pkt_type, data_len, disp, last_poll>>

\* A lock that lets a second thread in while a first holds it.
CanAcquireAlways(owner) == TRUE

\* threading.Lock: a blocking acquire returns once no thread holds the lock.
CanAcquire(owner) == owner = "free"

\* with self._data_lock: (a blocking acquire)
ReaderLock(t) ==
    /\ IsAlive(t) /\ rpc[t] = "lock"
    /\ CanAcquire(data_lock[t])
    /\ data_lock' = [data_lock EXCEPT ![t] = "reader"]
    /\ rpc' = [rpc EXCEPT ![t] = "dispatch"]
    /\ UNCHANGED <<pureVars, objVars, queueVars, port_lock, kill_evt, wireVars, callerVars,
                   thread, thread_err, pkt_type, read_data, data_len, disp, last_poll>>

\* self._event_packets.append(pkt); entries carry the order of their append.
QueueAppend(q, evt, id) == Append(q, [evt |-> evt, id |-> id])

\* A pop from the wrong end: pop() instead of pop(0).
QueuePopLast(q) == [item |-> q[Len(q)], rest |-> SubSeq(q, 1, Len(q) - 1)]

\* A read of the oldest entry that leaves it in the list.
QueuePeek(q) == [item |-> Head(q), rest |-> q]

\* self._event_packets.pop(0)
QueuePop(q) == [item |-> Head(q), rest |-> Tail(q)]

\* What the body of "with self._data_lock" does with the frame read.
Classify(ptype, data, acb, ecb) ==
    IF ptype = PT_ASYNC /\ acb
    THEN LET a == AsyncFromBytes(data) IN
         IF a.ok THEN [out |-> "async_cb", pkt |-> a]
         ELSE [out |-> "error", err |-> a.err]
    ELSE LET e == EventFromBytes(data) IN
         IF ~e.ok THEN [out |-> "error", err |-> e.err]
         ELSE IF e.evt_code = EC_COMMAND_COMPLETE THEN [out |-> "queued", pkt |-> e]
         ELSE IF ecb THEN [out |-> "evt_cb", pkt |-> e]
         ELSE [out |-> "dropped", pkt |-> e]

\* the body of "with self._data_lock", up to the call of a callback
ReaderDispatch(t) ==
    /\ IsAlive(t) /\ rpc[t] = "dispatch"
    /\ LET k == Classify(pkt_type[t][1], read_data[t], async_callback[t], evt_callback[t]) IN
         /\ disp' = [disp EXCEPT ![t] =
                [out |-> k.out, type |-> pkt_type[t],
                 code |-> SubSeq(read_data[t], 1, 1),
                 whole |-> Len(read_data[t]) = HeaderLen(pkt_type[t][1]) + data_len[t],
                 late |-> kill_evt[t]]]
         /\ IF k.out = "queued"
            THEN /\ event_packets' = [event_packets EXCEPT ![t] =
                        QueueAppend(event_packets[t], k.pkt, n_appended[t] + 1)]
                 /\ n_appended' = [n_appended EXCEPT ![t] = n_appended[t] + 1]
            ELSE UNCHANGED <<event_packets, n_appended>>
         /\ IF k.out = "error"
            THEN ReaderRaise(t, k.err) /\ rpc' = rpc
            ELSE /\ rpc' = [rpc EXCEPT ![t] =
                        IF k.out \in {"async_cb", "evt_cb"} THEN "cb" ELSE "loop"]
                 /\ UNCHANGED <<thread, thread_err>>
         /\ data_lock' = [data_lock EXCEPT ![t] =
                IF k.out \in {"async_cb", "evt_cb"} THEN "reader" ELSE "free"]
    \* the iteration's locals are dead from here on
    /\ pkt_type' = [pkt_type EXCEPT ![t] = <<>>]
    /\ read_data' = [read_data EXCEPT ![t] = <<>>]
    /\ data_len' = [data_len EXCEPT ![t] = 0]
    /\ UNCHANGED <<pureVars, objVars, returned, port_lock, kill_evt, wireVars, callerVars,
                   last_poll>>

\* the callback returns and the with statement releases the data lock
ReaderCallbackReturn(t) ==
    /\ IsAlive(t) /\ rpc[t] = "cb"
    /\ data_lock' = [data_lock EXCEPT ![t] = "free"]
    /\ rpc' = [rpc EXCEPT ![t] = "loop"]
    /\ UNCHANGED <<pureVars, objVars, queueVars, port_lock, kill_evt, wireVars, callerVars,
                   thread, thread_err, pkt_type, read_data, data_len, disp, last_poll>>

Reader(t) ==
    \/ ReaderLoop(t)
    \/ ReaderPoll(t)
    \/ ReaderType(t)
    \/ ReaderHdr(t)
    \/ ReaderPayload(t)
    \/ ReaderLock(t)
    \/ ReaderDispatch(t)
    \/ ReaderCallbackReturn(t)

\* ---------------------------------------------------------------- the peer
PortInUse(p) == \E t \in Inst : port_id[t] = p /\ port_open[t]

\* The peer answers the oldest command it has not answered.
PeerRespond(p) ==
    /\ PortInUse(p)
    /\ written[p] # <<>>
    /\ inbuf' = [inbuf EXCEPT ![p] = inbuf[p] \o CompleteFrame(Head(written[p]))]
    /\ written' = [written EXCEPT ![p] = Tail(written[p])]
    /\ UNCHANGED <<pureVars, objVars, queueVars, readerVars, lockVars, kill_evt, peer_left,
                   callerVars>>

\* The peer sends a frame nobody asked for.
PeerSend(p, f) ==
    /\ PortInUse(p)
    /\ peer_left > 0
    /\ peer_left' = peer_left - 1
    /\ inbuf' = [inbuf EXCEPT ![p] = inbuf[p] \o f]
    /\ UNCHANGED <<pureVars, objVars, queueVars, readerVars, lockVars, kill_evt, written,
                   callerVars>>

\* The peer sends the first bytes of a frame and stalls.
PeerSendTruncated(p, f) ==
    /\ PortInUse(p)
    /\ peer_left > 0
    /\ peer_left' = peer_left - 1
    /\ inbuf' = [inbuf EXCEPT ![p] = inbuf[p] \o f]
    /\ UNCHANGED <<pureVars, objVars, queueVars, readerVars, lockVars, kill_evt, written,
                   callerVars>>

Peer ==
    \/ \E p \in Ports : PeerRespond(p)
    \/ \E p \in Ports, f \in UnsolicitedFrames : PeerSend(p, f)
    \/ \E p \in Ports, f \in TruncatedFrames : PeerSendTruncated(p, f)

\* -------------------------------------------------------------- the callers
Constructed(t) == port_id[t] # ""

\* A public operation begins on transport t.
Begin(c, t, op, pc) ==
    /\ cpc[c] = "idle"
    /\ ops_left > 0
    /\ Constructed(t) /\ referenced[t]
    /\ ops_left' = ops_left - 1
    /\ cpc' = [cpc EXCEPT ![c] = pc]
    /\ cop' = [cop EXCEPT ![c] = op]
    /\ cinst' = [cinst EXCEPT ![c] = t]
    /\ result' = [result EXCEPT ![c] = NoResult]
    /\ attempts' = [attempts EXCEPT ![c] = 0]
    /\ timeouts' = [timeouts EXCEPT ![c] = 0]
    /\ nwrites' = [nwrites EXCEPT ![c] = 0]
    /\ start_mark' = [start_mark EXCEPT ![c] =
            [appended |-> n_appended[t], empty |-> event_packets[t] = <<>>,
             alive |-> IsAlive(t), open |-> port_open[t], prev |-> cop[c]]]

\* The operation ends: it returns res or raises it.
Finish(c, res) ==
    /\ cpc' = [cpc EXCEPT ![c] = "idle"]
    /\ result' = [result EXCEPT ![c] = res]

Raised(err) == [kind |-> err]
Returned(x) == [kind |-> "event", evt |-> x.evt, id |-> x.id]
Done == [kind |-> "ok"]

\* send_command(pkt) -> _write(pkt.to_bytes(), timeout): tries = self.retries
SendCommand(c, t, pkt) ==
    /\ Begin(c, t, "send", "flush")
    /\ cpkt' = [cpkt EXCEPT ![c] = pkt]
    /\ tries' = [tries EXCEPT ![c] = retries[t]]
    /\ UNCHANGED <<pureVars, objVars, queueVars, readerVars, lockVars, kill_evt, wireVars, timer,
                   cargs>>

\* self.port.flush(): pyserial raises PortNotOpenError on a closed port
WriteFlush(c) ==
    /\ cpc[c] = "flush"
    /\ IF port_open[cinst[c]]
       THEN cpc' = [cpc EXCEPT ![c] = "write"] /\ result' = result
       ELSE Finish(c, Raised("PortNotOpenError"))
    /\ UNCHANGED <<pureVars, objVars, queueVars, readerVars, lockVars, kill_evt, wireVars,
                   cop, cinst, cpkt, cargs, tries, timer, ops_left, attempts, timeouts,
                   nwrites, start_mark>>

\* self.port.write(pkt)
WritePort(c) ==
    /\ cpc[c] = "write"
    /\ IF port_open[cinst[c]]
       THEN /\ written' = [written EXCEPT ![port_id[cinst[c]]] = Append(@, cpkt[c])]
            /\ nwrites' = [nwrites EXCEPT ![c] = nwrites[c] + 1]
            /\ cpc' = [cpc EXCEPT ![c] = "wloop"]
            /\ result' = result
       ELSE /\ Finish(c, Raised("PortNotOpenError"))
            /\ UNCHANGED <<written, nwrites>>
    /\ UNCHANGED <<pureVars, objVars, queueVars, readerVars, lockVars, kill_evt, inbuf, peer_left,
                   cop, cinst, cpkt, cargs, tries, timer, ops_left, attempts, timeouts,
                   start_mark>>

\* A loop that gives up one attempt early.
WriteLoopCondStrict(tr, alive) == tr > 0 /\ alive

\* A loop test that does not look at the reader thread.
WriteLoopCondAnyReader(tr, alive) == tr >= 0

\* tries >= 0 and self._read_thread.is_alive()
WriteLoopCond(tr, alive) == tr >= 0 /\ alive

\* A retry that goes back to the write.
RetryResends == "write"

\* Where _write goes on after a caught TimeoutError: back to its loop test.
RetryTarget == "wloop"

\* while tries >= 0 and self._read_thread.is_alive(): ... ; raise TimeoutError
WriteLoop(c) ==
    /\ cpc[c] = "wloop"
    /\ IF WriteLoopCond(tries[c], IsAlive(cinst[c]))
       THEN /\ cpc' = [cpc EXCEPT ![c] = "rstart"]
            /\ attempts' = [attempts EXCEPT ![c] = attempts[c] + 1]
            /\ result' = result
       ELSE /\ Finish(c, Raised("TimeoutError"))
            /\ attempts' = attempts
    /\ UNCHANGED <<pureVars, objVars, queueVars, readerVars, lockVars, kill_evt, wireVars,
                   cop, cinst, cpkt, cargs, tries, timer, ops_left, timeouts, nwrites,
                   start_mark>>

\* retrieve_packet(timeout) -> _retrieve(timeout)
RetrievePacket(c, t) ==
    /\ Begin(c, t, "retrieve", "rstart")
    /\ UNCHANGED <<pureVars, objVars, queueVars, readerVars, lockVars, kill_evt, wireVars,
                   cpkt, cargs, tries, timer>>

\* timeout_process = Process(target=_wait_timeout); timeout_process.start()
RetrieveStart(c) ==
    /\ cpc[c] = "rstart"
    /\ timer' = [timer EXCEPT ![c] = "running"]
    /\ cpc' = [cpc EXCEPT ![c] = "rwhile"]
    /\ UNCHANGED <<pureVars, objVars, queueVars, readerVars, lockVars, kill_evt, wireVars,
                   cop, cinst, cpkt, cargs, tries, result, ops_left, attempts, timeouts,
                   nwrites, start_mark>>

\* while self._read_thread.is_alive():
RetrieveWhile(c) ==
    /\ cpc[c] = "rwhile"
    /\ cpc' = [cpc EXCEPT ![c] = IF IsAlive(cinst[c]) THEN "rcheck" ELSE "rlock"]
    /\ UNCHANGED <<pureVars, objVars, queueVars, readerVars, lockVars, kill_evt, wireVars,
                   cop, cinst, cpkt, cargs, tries, timer, result, ops_left, attempts,
                   timeouts, nwrites, start_mark>>

\* if self._event_packets: terminate the timeout process; break
RetrieveCheck(c) ==
    /\ cpc[c] = "rcheck"
    /\ IF event_packets[cinst[c]] # <<>>
       THEN /\ timer' = [timer EXCEPT ![c] = "off"]
            /\ cpc' = [cpc EXCEPT ![c] = "rlock"]
       ELSE /\ timer' = timer
            /\ cpc' = [cpc EXCEPT ![c] = "rtimer"]
    /\ UNCHANGED <<pureVars, objVars, queueVars, readerVars, lockVars, kill_evt, wireVars,
                   cop, cinst, cpkt, cargs, tries, result, ops_left, attempts, timeouts,
                   nwrites, start_mark>>

\* if timeout_process.exitcode is None: continue; raise TimeoutError.
\* Inside _write the TimeoutError is caught: tries -= 1.
RetrieveTimer(c) ==
    /\ cpc[c] = "rtimer"
    /\ IF timer[c] = "running"
       THEN /\ cpc' = [cpc EXCEPT ![c] = "rwhile"]
            /\ UNCHANGED <<tries, timeouts, result, timer>>
       ELSE /\ timer' = [timer EXCEPT ![c] = "off"]
            /\ timeouts' = [timeouts EXCEPT ![c] = timeouts[c] + 1]
            /\ IF cop[c] = "send"
               THEN /\ tries' = [tries EXCEPT ![c] = tries[c] - 1]
                    /\ cpc' = [cpc EXCEPT ![c] = RetryTarget]
                    /\ result' = result
               ELSE /\ Finish(c, Raised("TimeoutError"))
                    /\ tries' = tries
    /\ UNCHANGED <<pureVars, objVars, queueVars, readerVars, lockVars, kill_evt, wireVars,
                   cop, cinst, cpkt, cargs, ops_left, attempts, nwrites, start_mark>>

\* The timeout process finishes its sleep.  Its exit code is looked at only
\* at the test above, so the exit is taken there.
TimerExpire(c) ==
    /\ cpc[c] = "rtimer"
    /\ timer[c] = "running"
    /\ timer' = [timer EXCEPT ![c] = "expired"]
    /\ UNCHANGED <<pureVars, objVars, queueVars, readerVars, lockVars, kill_evt, wireVars,
                   cpc, cop, cinst, cpkt, cargs, tries, result, ops_left, attempts,
                   timeouts, nwrites, start_mark>>

\* with self._data_lock: (a blocking acquire)
RetrieveLock(c) ==
    /\ cpc[c] = "rlock"
    /\ CanAcquire(data_lock[cinst[c]])
    /\ data_lock' = [data_lock EXCEPT ![cinst[c]] = c]
    /\ cpc' = [cpc EXCEPT ![c] = "rpop"]
    /\ timer' = [timer EXCEPT ![c] = "off"]
    /\ UNCHANGED <<pureVars, objVars, queueVars, readerVars, port_lock, kill_evt, wireVars,
                   cop, cinst, cpkt, cargs, tries, result, ops_left, attempts, timeouts,
                   nwrites, start_mark>>

\* evt = self._event_packets.pop(0); return evt.  pop raises IndexError on
\* an empty list; the with statement releases the lock either way.
RetrievePop(c) ==
    /\ cpc[c] = "rpop"
    /\ data_lock' = [data_lock EXCEPT ![cinst[c]] = "free"]
    /\ IF event_packets[cinst[c]] = <<>>
       THEN /\ Finish(c, Raised("IndexError"))
            /\ UNCHANGED <<event_packets, returned>>
       ELSE LET r == QueuePop(event_packets[cinst[c]]) IN
            /\ event_packets' = [event_packets EXCEPT ![cinst[c]] = r.rest]
            /\ returned' = [returned EXCEPT ![cinst[c]] = Append(@, r.item.id)]
            /\ Finish(c, Returned(r.item))
    /\ UNCHANGED <<pureVars, objVars, n_appended, readerVars, port_lock, kill_evt, wireVars,
                   cop, cinst, cpkt, cargs, tries, timer, ops_left, attempts, timeouts,
                   nwrites, start_mark>>

\* stop(): the entry of the public operation
Stop(c, t) ==
    /\ Begin(c, t, "stop", "stop_set")
    /\ UNCHANGED <<pureVars, objVars, queueVars, readerVars, lockVars, kill_evt, wireVars,
                   cpkt, cargs, tries, timer>>

\* An event whose set() flips the flag.
EventToggle(flag) == ~flag

\* threading.Event.set(): the flag is true afterwards, whatever it was.
EventSet(flag) == TRUE

\* self._kill_evt.set()
StopSet(c) ==
    /\ cpc[c] = "stop_set"
    /\ kill_evt' = [kill_evt EXCEPT ![cinst[c]] = EventSet(kill_evt[cinst[c]])]
    /\ cpc' = [cpc EXCEPT ![c] = "join"]
    /\ UNCHANGED <<pureVars, objVars, queueVars, readerVars, lockVars, wireVars,
                   cop, cinst, cpkt, cargs, tries, timer, result, ops_left, attempts,
                   timeouts, nwrites, start_mark>>

\* A join that does not wait for the thread.
JoinReturnsAtOnce(t) == TRUE

\* threading.Thread.join(): returns once the thread has ended (at once when
\* it ended before).
JoinReturns(t) == ~IsAlive(t)

\* self._read_thread.join(), then back to whoever called stop()
StopJoin(c) ==
    /\ cpc[c] = "join"
    /\ JoinReturns(cinst[c])
    /\ IF cop[c] = "stop"
       THEN Finish(c, Done)
       ELSE /\ cpc' = [cpc EXCEPT ![c] =
                    CASE cop[c] = "close" -> "close_port"
                      [] cop[c] = "exit" -> "exit_close"
                      [] OTHER -> "new_flush"]
            /\ result' = result
    /\ UNCHANGED <<pureVars, objVars, queueVars, readerVars, lockVars, kill_evt, wireVars,
                   cop, cinst, cpkt, cargs, tries, timer, ops_left, attempts, timeouts,
                   nwrites, start_mark>>

\* start(): the entry of the public operation
Start(c, t) ==
    /\ Begin(c, t, "start", "start_thread")
    /\ UNCHANGED <<pureVars, objVars, queueVars, readerVars, lockVars, kill_evt, wireVars,
                   cpkt, cargs, tries, timer>>

\* __enter__: self.start(); return self
Enter(c, t) ==
    /\ Begin(c, t, "enter", "start_thread")
    /\ UNCHANGED <<pureVars, objVars, queueVars, readerVars, lockVars, kill_evt, wireVars,
                   cpkt, cargs, tries, timer>>

\* A thread object that can be started again once it has ended.
CanStartAgain(state) == state # "alive"

\* threading.Thread.start(): "threads can only be started once": RuntimeError
\* unless the thread object was never started.
CanStart(state) == state = "none"

\* self._read_thread.start()
StartThread(c) ==
    /\ cpc[c] = "start_thread"
    /\ IF CanStart(thread[cinst[c]])
       THEN /\ thread' = [thread EXCEPT ![cinst[c]] = "alive"]
            /\ rpc' = [rpc EXCEPT ![cinst[c]] = "loop"]
            /\ thread_err' = [thread_err EXCEPT ![cinst[c]] = ""]
            /\ Finish(c, Done)
       ELSE /\ Finish(c, Raised("RuntimeError"))
            /\ UNCHANGED <<thread, rpc, thread_err>>
    /\ UNCHANGED <<pureVars, objVars, queueVars, lockVars, kill_evt, wireVars,
                   pkt_type, read_data, data_len, disp, last_poll,
                   cop, cinst, cpkt, cargs, tries, timer, ops_left, attempts, timeouts,
                   nwrites, start_mark>>

\* close(): if self._read_thread.is_alive(): self.stop()
Close(c, t) ==
    /\ Begin(c, t, "close", IF IsAlive(t) THEN "stop_set" ELSE "close_port")
    /\ UNCHANGED <<pureVars, objVars, queueVars, readerVars, lockVars, kill_evt, wireVars,
                   cpkt, cargs, tries, timer>>

\* if self.port.is_open: self.port.flush(); self.port.close()
ClosePort(c) ==
    /\ cpc[c] = "close_port"
    /\ port_open' = [port_open EXCEPT ![cinst[c]] = FALSE]
    /\ Finish(c, Done)
    /\ UNCHANGED <<pureVars, instances, port_id, async_callback, evt_callback, retries, referenced,
                   queueVars, readerVars, lockVars, kill_evt, wireVars,
                   cop, cinst, cpkt, cargs, tries, timer, ops_left, attempts, timeouts,
                   nwrites, start_mark>>

\* __exit__: with self._port_lock: (a blocking acquire, begun here)
Exit(c, t) ==
    /\ Begin(c, t, "exit", "exit_lock")
    /\ UNCHANGED <<pureVars, objVars, queueVars, readerVars, lockVars, kill_evt, wireVars,
                   cpkt, cargs, tries, timer>>

ExitLock(c) ==
    /\ cpc[c] = "exit_lock"
    /\ CanAcquire(port_lock[cinst[c]])
    /\ port_lock' = [port_lock EXCEPT ![cinst[c]] = c]
    /\ cpc' = [cpc EXCEPT ![c] = "stop_set"]
    /\ UNCHANGED <<pureVars, objVars, queueVars, readerVars, data_lock, kill_evt, wireVars,
                   cop, cinst, cpkt, cargs, tries, timer, result, ops_left, attempts,
                   timeouts, nwrites, start_mark>>

\* self.port.close(), and the with statement releases the port lock
ExitClose(c) ==
    /\ cpc[c] = "exit_close"
    /\ port_open' = [port_open EXCEPT ![cinst[c]] = FALSE]
    /\ port_lock' = [port_lock EXCEPT ![cinst[c]] = "free"]
    /\ Finish(c, Done)
    /\ UNCHANGED <<pureVars, instances, port_id, async_callback, evt_callback, retries, referenced,
                   queueVars, readerVars, data_lock, kill_evt, wireVars,
                   cop, cinst, cpkt, cargs, tries, timer, ops_left, attempts, timeouts,
                   nwrites, start_mark>>

\* ---------------------------------------------------------- the constructor
\* A constructor that does not look for an earlier transport on the port.
EarlierNever(p) == 0

\* A registry that is not keyed by port: the earlier transport is whichever
\* transport is registered.
EarlierOnAnyPort(p) ==
    IF \E q \in Ports : instances[q] # 0
    THEN instances[CHOOSE q \in Ports : instances[q] # 0]
    ELSE 0

\* __new__: "if serial_port in cls.instances": the registered transport of
\* port p, 0 when there is none.
Earlier(p) == instances[p]

\* The transports not constructed yet; a new object takes the lowest.
Fresh == {t \in Inst : ~Constructed(t)}

\* SerialUartTransport(port, ...): __new__ begins.  With an earlier transport
\* registered for the port it calls that transport's stop() first.
Construct(c, p, acb, ecb, r) ==
    /\ cpc[c] = "idle"
    /\ ops_left > 0
    /\ Fresh # {}
    /\ ops_left' = ops_left - 1
    /\ cop' = [cop EXCEPT ![c] = "construct"]
    /\ cargs' = [cargs EXCEPT ![c] = [port |-> p, acb |-> acb, ecb |-> ecb, retries |-> r]]
    /\ result' = [result EXCEPT ![c] = NoResult]
    /\ IF Earlier(p) # 0
       THEN /\ cinst' = [cinst EXCEPT ![c] = Earlier(p)]
            /\ cpc' = [cpc EXCEPT ![c] = "stop_set"]
       ELSE /\ cinst' = cinst
            /\ cpc' = [cpc EXCEPT ![c] = "new_obj"]
    /\ UNCHANGED <<pureVars, objVars, queueVars, readerVars, lockVars, kill_evt, wireVars,
                   cpkt, tries, timer, attempts, timeouts, nwrites, start_mark>>

\* SerialUartTransport(port_id=port): kwargs.get("port_id", args[0]) looks at
\* args[0] whether or not the keyword is there, and args is empty.
ConstructByKeyword(c) ==
    /\ cpc[c] = "idle"
    /\ ops_left > 0
    /\ ops_left' = ops_left - 1
    /\ cop' = [cop EXCEPT ![c] = "construct"]
    /\ Finish(c, Raised("IndexError"))
    /\ UNCHANGED <<pureVars, objVars, queueVars, readerVars, lockVars, kill_evt, wireVars,
                   cinst, cpkt, cargs, tries, timer, attempts, timeouts, nwrites,
                   start_mark>>

\* cls.instances[serial_port].port.flush(), after the stop(): pyserial raises
\* PortNotOpenError when the earlier transport was closed.
NewFlush(c) ==
    /\ cpc[c] = "new_flush"
    /\ IF port_open[cinst[c]]
       THEN cpc' = [cpc EXCEPT ![c] = "new_obj"] /\ result' = result
       ELSE Finish(c, Raised("PortNotOpenError"))
    /\ UNCHANGED <<pureVars, objVars, queueVars, readerVars, lockVars, kill_evt, wireVars,
                   cop, cinst, cpkt, cargs, tries, timer, ops_left, attempts, timeouts,
                   nwrites, start_mark>>

\* The new object is registered (__new__), __init__ sets its fields, opens the
\* port (_init_port) and starts the reader (_init_read_thread).
NewObject(c) ==
    /\ cpc[c] = "new_obj"
    /\ Fresh # {}
    /\ LET t == CHOOSE x \in Fresh : \A y \in Fresh : x <= y
           a == cargs[c] IN
         /\ instances' = [instances EXCEPT ![a.port] = t]
         /\ port_id' = [port_id EXCEPT ![t] = a.port]
         /\ port_open' = [port_open EXCEPT ![t] = TRUE]
         /\ async_callback' = [async_callback EXCEPT ![t] = a.acb]
         /\ evt_callback' = [evt_callback EXCEPT ![t] = a.ecb]
         /\ retries' = [retries EXCEPT ![t] = a.retries]
         /\ referenced' = [referenced EXCEPT ![t] = TRUE]
         /\ event_packets' = [event_packets EXCEPT ![t] = <<>>]
         /\ kill_evt' = [kill_evt EXCEPT ![t] = FALSE]
         /\ data_lock' = [data_lock EXCEPT ![t] = "free"]
         /\ port_lock' = [port_lock EXCEPT ![t] = "free"]
         /\ thread' = [thread EXCEPT ![t] = "alive"]
         /\ rpc' = [rpc EXCEPT ![t] = "loop"]
         /\ cinst' = [cinst EXCEPT ![c] = t]
    /\ Finish(c, Done)
    /\ UNCHANGED <<pureVars, n_appended, returned, thread_err, pkt_type, read_data, data_len,
                   disp, last_poll, wireVars, cop, cpkt, cargs, tries, timer, ops_left,
                   attempts, timeouts, nwrites, start_mark>>

\* The program drops its last reference to a transport whose reader has
\* ended: the WeakValueDictionary loses the entry.  (A running reader keeps
\* its transport alive: the thread holds the bound method self._read.)
DropReference(t) ==
    /\ Constructed(t) /\ referenced[t]
    /\ ~IsAlive(t)
    /\ \A c \in Callers : cpc[c] = "idle" \/ cinst[c] # t
    /\ referenced' = [referenced EXCEPT ![t] = FALSE]
    /\ instances' = [instances EXCEPT ![port_id[t]] = IF @ = t THEN 0 ELSE @]
    /\ UNCHANGED <<pureVars, port_id, port_open, async_callback, evt_callback, retries,
                   queueVars, readerVars, lockVars, kill_evt, wireVars, callerVars>>

\* The steps of a caller inside an operation.
CallerStep(c) ==
    \/ WriteFlush(c)
    \/ WritePort(c)
    \/ WriteLoop(c)
    \/ RetrieveStart(c)
    \/ RetrieveWhile(c)
    \/ RetrieveCheck(c)
    \/ RetrieveTimer(c)
    \/ TimerExpire(c)
    \/ RetrieveLock(c)
    \/ RetrievePop(c)
    \/ StopSet(c)
    \/ StopJoin(c)
    \/ ClosePort(c)
    \/ ExitLock(c)
    \/ ExitClose(c)
    \/ StartThread(c)

\* The steps inside a constructor call.
ConstructStep(c) ==
    \/ NewFlush(c)
    \/ NewObject(c)

\* The operations a caller may begin.
CallerBegin(c) ==
    \/ \E t \in Inst, pkt \in CmdPkts : SendCommand(c, t, pkt)
    \/ \E t \in Inst : RetrievePacket(c, t)
    \/ \E t \in Inst : Stop(c, t)
    \/ \E t \in Inst : Close(c, t)
    \/ \E t \in Inst : Exit(c, t)
    \/ \E t \in Inst : Start(c, t)
    \/ \E t \in Inst : Enter(c, t)

\* ---------------------------------------------------------- specifications
\* One transport, one caller thread, the reader and the peer.
Next ==
    \/ \E t \in Inst : Reader(t)
    \/ Peer
    \/ CallerBegin("c1")
    \/ CallerStep("c1")

Spec == Init /\ [][Next]_vars

\* No transport yet: the program constructs transports on the two ports,
\* stops and closes them and drops them, while the peer sends frames.
Unbuilt ==
    /\ instances = [p \in Ports |-> 0]
    /\ port_id = [t \in Inst |-> ""]
    /\ port_open = [t \in Inst |-> FALSE]
    /\ referenced = [t \in Inst |-> FALSE]
    /\ thread = [t \in Inst |-> "none"]
    /\ async_callback = [t \in Inst |-> FALSE]
    /\ evt_callback = [t \in Inst |-> FALSE]
    /\ retries = [t \in Inst |-> 0]

InitReg ==
    /\ Quiet
    /\ Unbuilt
    /\ peer_left = MaxFrames
    /\ ops_left = MaxOps + 1
    /\ call = NoCall /\ ret = NoRet

NextReg ==
    \/ \E p \in Ports, a \in BOOLEAN, e \in BOOLEAN : Construct("c1", p, a, e, 0)
    \/ ConstructByKeyword("c1")
    \/ ConstructStep("c1")
    \/ \E t \in Inst : Stop("c1", t)
    \/ \E t \in Inst : Close("c1", t)
    \/ StopSet("c1")
    \/ StopJoin("c1")
    \/ ClosePort("c1")
    \/ \E t \in Inst : DropReference(t)
    \/ \E t \in Inst : Reader(t)
    \/ \E p \in Ports, f \in UnsolicitedFrames : PeerSend(p, f)
    \/ \E p \in Ports, f \in TruncatedFrames : PeerSendTruncated(p, f)

SpecReg == InitReg /\ [][NextReg]_vars

\* One transport on port p1 (an event callback, no async callback, no
\* retries) and a caller that constructs a second transport like it, on either
\* port, and works on either of the two.
InitPorts ==
    /\ Init
    /\ ~async_callback[1] /\ evt_callback[1] /\ retries[1] = 0

NextPorts ==
    \/ \E p \in Ports : Construct("c1", p, FALSE, TRUE, 0)
    \/ ConstructStep("c1")
    \/ CallerBegin("c1")
    \/ CallerStep("c1")
    \/ \E t \in Inst : Reader(t)
    \/ Peer

SpecPorts == InitPorts /\ [][NextPorts]_vars

\* ------------------------------------------------- the command encoder
\* hci_packets.py, CommandPacket.  A Python value given as ogf or ocf is an
\* int, a member of an Enum (with its value) or something else (a str).
IntV(n) == [type |-> "int", v |-> n]
EnumV(n) == [type |-> "enum", v |-> n]
StrV == [type |-> "str", v |-> 0]

\* params as given to CommandPacket: None, one int, or a list of ints.
NoParams == [type |-> "none", v |-> <<>>]
IntParam(n) == [type |-> "int", v |-> <<n>>]
ListParams(l) == [type |-> "list", v |-> l]

Value(x) == [kind |-> "value", v |-> x]
Error(e) == [kind |-> "error", err |-> e]

Pow2(k) == 2 ^ k
Pow256(n) == 256 ^ n
Abs(n) == IF n < 0 THEN 0 - n ELSE n
MaxOf(a, b) == IF a >= b THEN a ELSE b

\* a | b and a & b on non-negative ints, bit by bit; a << k and a >> k.
RECURSIVE BitOr(_, _)
BitOr(a, b) ==
    IF a = 0 THEN b
    ELSE IF b = 0 THEN a
    ELSE (IF a % 2 = 1 \/ b % 2 = 1 THEN 1 ELSE 0) + 2 * BitOr(a \div 2, b \div 2)

RECURSIVE BitAnd(_, _)
BitAnd(a, b) ==
    IF a = 0 \/ b = 0 THEN 0
    ELSE (IF a % 2 = 1 /\ b % 2 = 1 THEN 1 ELSE 0) + 2 * BitAnd(a \div 2, b \div 2)

ShiftLeft(a, k) == a * Pow2(k)
ShiftRight(a, k) == a \div Pow2(k)

\* int.bit_length(): the bits of the absolute value.
RECURSIVE BitLength(_)
BitLength(n) == IF n = 0 THEN 0 ELSE 1 + BitLength(Abs(n) \div 2)

\* A width without the minimum of one byte.
ByteLengthNoMin(num) == (BitLength(num) + 7) \div 8

\* _byte_length(num) = max((num.bit_length() + 7) // 8, 1)
ByteLength(num) == MaxOf((BitLength(num) + 7) \div 8, 1)

\* CommandPacket._enum_to_int
EnumToInt(num) == IF num.type = "enum" THEN IntV(num.v) ELSE num

\* An opcode with the group shifted by 8 instead of 10.
MakeHciOpcodeShift8(ogf, ocf) ==
    IF ogf.type \notin {"int", "enum"} \/ ocf.type \notin {"int", "enum"}
    THEN Error("TypeError")
    ELSE Value(BitOr(ShiftLeft(ogf.v, 8), ocf.v))

\* CommandPacket.make_hci_opcode: an Enum gives its value, anything else that
\* is no int raises TypeError; (ogf << 10) | ocf.
MakeHciOpcode(ogf, ocf) ==
    IF ogf.type \notin {"int", "enum"} \/ ocf.type \notin {"int", "enum"}
    THEN Error("TypeError")
    ELSE Value(BitOr(ShiftLeft(ogf.v, 10), ocf.v))

\* The two halves of a list of two or more elements.  (A loop over a list is
\* evaluated by halves: the same result at a depth of log2 of the length.)
LeftHalf(l) == SubSeq(l, 1, Len(l) \div 2)
RightHalf(l) == SubSeq(l, Len(l) \div 2 + 1, Len(l))

\* sum([_byte_length(x) for x in params])
RECURSIVE SumByteLength(_)
SumByteLength(l) ==
    IF Len(l) = 0 THEN 0
    ELSE IF Len(l) = 1 THEN ByteLength(l[1])
    ELSE SumByteLength(LeftHalf(l)) + SumByteLength(RightHalf(l))

\* A length that counts the parameters, not their bytes.
GetLengthCount(params) == Len(params.v)

\* CommandPacket._get_length
GetLength(params) ==
    IF params.type = "none" THEN 0
    ELSE IF params.type = "int" THEN ByteLength(params.v[1])
    ELSE SumByteLength(params.v)

\* The n bytes of u (0 <= u < 256^n), least significant first.
RECURSIVE LeBytes(_, _)
LeBytes(u, n) == IF n = 0 THEN <<>> ELSE <<u % 256>> \o LeBytes(u \div 256, n - 1)

RECURSIVE Reverse(_)
Reverse(l) == IF l = <<>> THEN <<>> ELSE Append(Reverse(Tail(l)), Head(l))

\* int.to_bytes(n, byteorder, signed=...): OverflowError for a negative int
\* when unsigned and for an int that does not fit in n bytes.
IntToBytes(v, n, byteorder, signed) ==
    LET lo == IF signed THEN 0 - (Pow256(n) \div 2) ELSE 0
        hi == IF signed THEN (Pow256(n) \div 2) - 1 ELSE Pow256(n) - 1
        le == LeBytes(IF v < 0 THEN v + Pow256(n) ELSE v, n)
    IN IF v < lo \/ v > hi THEN Error("OverflowError")
       ELSE Value(IF byteorder = "little" THEN le ELSE Reverse(le))

\* The body of the loop of to_bytes for one param: unsigned first, and on
\* OverflowError signed (whose OverflowError nothing catches).
ParamBytes(param, byteorder) ==
    LET num_bytes == ByteLength(param)
        u == IntToBytes(param, num_bytes, byteorder, FALSE)
    IN IF u.kind = "value" THEN u ELSE IntToBytes(param, num_bytes, byteorder, TRUE)

\* The bytes the loop of to_bytes extends by, or the error of the first
\* param that raises.
RECURSIVE EncodeParams(_, _)
EncodeParams(params, byteorder) ==
    IF Len(params) = 0 THEN Value(<<>>)
    ELSE IF Len(params) = 1 THEN ParamBytes(params[1], byteorder)
    ELSE LET a == EncodeParams(LeftHalf(params), byteorder)
             b == EncodeParams(RightHalf(params), byteorder)
         IN IF a.kind = "error" THEN a
            ELSE IF b.kind = "error" THEN b
            ELSE Value(a.v \o b.v)

\* for param in self.params: serialized_cmd.extend(...)
ExtendParams(serialized_cmd, params, byteorder) ==
    LET e == EncodeParams(params, byteorder) IN
    IF e.kind = "error" THEN e ELSE Value(serialized_cmd \o e.v)

\* CommandPacket.__init__
CommandPacketInit(ogf, ocf, params) ==
    LET opcode == MakeHciOpcode(EnumToInt(ogf), EnumToInt(ocf)) IN
    IF opcode.kind = "error" THEN opcode
    ELSE Value([ogf |-> EnumToInt(ogf).v, ocf |-> EnumToInt(ocf).v,
                length |-> GetLength(params), opcode |-> opcode.v,
                params |-> IF params.type = "none" THEN None ELSE Some(params.v)])

\* A to_bytes that keeps the low eight bits of the length.
ToBytesTruncating(pkt, byteorder) ==
    LET head == <<PT_COMMAND, BitAnd(pkt.opcode, 255),
                  ShiftRight(BitAnd(pkt.opcode, 65280), 8)>>
    IN IF pkt.params = None THEN Value(Append(head, pkt.length % 256))
       ELSE ExtendParams(Append(head, pkt.length % 256), pkt.params[1], byteorder)

\* CommandPacket.to_bytes: bytearray.append raises ValueError for a value
\* outside 0..255.
ToBytes(pkt, byteorder) ==
    LET head == <<PT_COMMAND, BitAnd(pkt.opcode, 255),
                  ShiftRight(BitAnd(pkt.opcode, 65280), 8)>>
    IN IF pkt.length > 255 THEN Error("ValueError")
       ELSE IF pkt.params = None THEN Value(Append(head, pkt.length))
       ELSE ExtendParams(Append(head, pkt.length), pkt.params[1], byteorder)

\* _utils.py, le_list_to_int: full_num |= num << 8 * i, over the list.
RECURSIVE LeListToInt(_)
LeListToInt(nums) ==
    IF nums = <<>> THEN 0
    ELSE BitOr(Head(nums), ShiftLeft(LeListToInt(Tail(nums)), 8))

\* ----------------------------------------------- calls of the pure functions
transportVars ==
    <<objVars, queueVars, readerVars, lockVars, kill_evt, wireVars, callerVars>>

\* No transport, nothing running: only the call given.
InitCall(calls) ==
    /\ Quiet
    /\ Unbuilt
    /\ peer_left = 0
    /\ ops_left = 0
    /\ call \in calls
    /\ ret = NoRet

\* The opcode fields of the HCI: a 6-bit group and a 10-bit command.
OgfValues == 0..63
OcfValues == 0..1023

OpcodeCalls ==
    {[fn |-> "make_hci_opcode", ogf |-> IntV(g), ocf |-> IntV(c)] :
        g \in OgfValues, c \in OcfValues}
    \cup {[fn |-> "make_hci_opcode", ogf |-> g, ocf |-> c] :
             g \in {EnumV(63), StrV}, c \in {EnumV(1), IntV(1), StrV}}

\* CommandPacket.make_hci_opcode(ogf, ocf)
MakeHciOpcodeCall ==
    /\ call.fn = "make_hci_opcode" /\ ret = NoRet
    /\ ret' = MakeHciOpcode(call.ogf, call.ocf)
    /\ UNCHANGED <<call, transportVars>>

SpecOpcode == InitCall(OpcodeCalls) /\ [][MakeHciOpcodeCall]_vars

\* Parameter values of one and two bytes, of either sign, at the edges of
\* their widths; lists of up to MaxParams of them.
ParamValues == {0, 1, 255, 256, 65535, -1, -128, -129}

RECURSIVE Lists(_)
Lists(n) ==
    IF n = 0 THEN {<<>>}
    ELSE Lists(n - 1) \cup {Append(l, v) : l \in Lists(n - 1), v \in ParamValues}

ParamsGiven ==
    {NoParams} \cup {IntParam(v) : v \in ParamValues}
    \cup {ListParams(l) : l \in Lists(MaxParams)}

\* Lists whose total width is just below and just above what the length byte
\* holds: 255 and 256 one-byte params, 127 and 128 two-byte params.
Repeat(v, k) == [i \in 1..k |-> v]
LongParams ==
    {ListParams(Repeat(1, k)) : k \in {255, 256}}
    \cup {ListParams(Repeat(256, k)) : k \in {127, 128}}

ToBytesCalls ==
    {[fn |-> "to_bytes", ogf |-> g, ocf |-> c, params |-> ps, endianness |-> e] :
        g \in {IntV(1), IntV(63), EnumV(63)}, c \in {IntV(1), IntV(1023)},
        ps \in ParamsGiven, e \in {"little", "big"}}
    \cup {[fn |-> "to_bytes", ogf |-> IntV(63), ocf |-> IntV(1), params |-> ps,
           endianness |-> e] : ps \in LongParams, e \in {"little", "big"}}

\* CommandPacket(ogf, ocf, params).to_bytes(endianness)
ToBytesCall ==
    /\ call.fn = "to_bytes" /\ ret = NoRet
    /\ LET pkt == CommandPacketInit(call.ogf, call.ocf, call.params) IN
         ret' = IF pkt.kind = "error" THEN pkt ELSE ToBytes(pkt.v, call.endianness)
    /\ UNCHANGED <<call, transportVars>>

SpecCommand == InitCall(ToBytesCalls) /\ [][ToBytesCall]_vars

\* ------------------------------------------------------------------ claims
SendEnded(c) == cop[c] = "send" /\ cpc[c] = "idle" /\ result[c].kind # "none"
RetrieveEnded(c) == cop[c] = "retrieve" /\ cpc[c] = "idle" /\ result[c].kind # "none"

\* No command-complete event came between the begin of c's operation and now,
\* and the queue was empty when it began.
NothingCompleted(c) ==
    /\ start_mark[c].empty
    /\ start_mark[c].appended = n_appended[cinst[c]]

\* C1: the events _retrieve has returned are, in order, the first events the
\* reader appended: the i-th event returned is the i-th event appended.
C1_FifoOrder ==
    \A t \in Inst : \A i \in 1..Len(returned[t]) : returned[t][i] = i

\* C1 witness: two events were returned while a third entry or the reader's
\* next append may still come: both returns happened, in order.
C1_Witness == Len(returned[1]) = 2 /\ n_appended[1] = 2

\* C2: with the reader alive and no command-complete event, a send makes
\* retries + 1 waiting attempts, each timing out, and then raises
\* TimeoutError; it never starts a further attempt.
C2_RetryAttempts ==
    \A c \in Callers :
        /\ cop[c] = "send" => attempts[c] <= retries[cinst[c]] + 1
        /\ (SendEnded(c) /\ IsAlive(cinst[c]) /\ result[c].kind = "TimeoutError")
              => /\ attempts[c] = retries[cinst[c]] + 1
                 /\ timeouts[c] = retries[cinst[c]] + 1
        /\ (SendEnded(c) /\ IsAlive(cinst[c]) /\ NothingCompleted(c))
              => result[c].kind = "TimeoutError"

\* C2 witness: a send with one retry ended in TimeoutError after two attempts,
\* the reader still running and nothing completed.
C2_Witness ==
    /\ SendEnded("c1") /\ IsAlive(1) /\ NothingCompleted("c1")
    /\ retries[1] = 1 /\ attempts["c1"] = 2 /\ timeouts["c1"] = 2
    /\ result["c1"].kind = "TimeoutError"

\* C3 as stated: every send that has ended wrote its command exactly once.
C3_EverySendWritesOnce ==
    \A c \in Callers : SendEnded(c) => nwrites[c] = 1

\* C3, amended: a send whose port is open writes its command exactly once,
\* before its first waiting attempt, and a retry never writes again; a send
\* on a closed port raises from the flush and writes nothing.
C3_WritesOnceWhenOpen ==
    \A c \in Callers :
        cop[c] = "send" =>
            /\ nwrites[c] <= 1
            /\ attempts[c] >= 1 => nwrites[c] = 1
            /\ (SendEnded(c) /\ result[c].kind # "PortNotOpenError") => nwrites[c] = 1
            /\ (SendEnded(c) /\ result[c].kind = "PortNotOpenError")
                  => nwrites[c] = 0 /\ attempts[c] = 0

\* C3 witness: a send that timed out twice (one retry) and wrote once.
C3_Witness ==
    /\ SendEnded("c1") /\ timeouts["c1"] = 2 /\ nwrites["c1"] = 1

\* The opcode a command-complete event echoes: evt_params is the frame from
\* offset 2, so the opcode is its bytes 1 and 2 (0-based).
EchoedOpcode(evt) == <<evt.evt_params[2], evt.evt_params[3]>>

\* C4: the event a send returns echoes the opcode of the command that send
\* wrote (stated for a peer that only answers commands).
C4_ReturnsOwnCompletion ==
    \A c \in Callers :
        (SendEnded(c) /\ result[c].kind = "event" /\ peer_left = MaxFrames)
            => EchoedOpcode(result[c].evt) = <<cpkt[c][2], cpkt[c][3]>>

\* C5: no state has a caller between the flush and the write of _write while
\* the reader of the same transport is between its header read and the end of
\* its payload read.
C5_WriteExcludesRead ==
    \A c \in Callers :
        ~(cpc[c] = "write" /\ IsAlive(cinst[c]) /\ rpc[cinst[c]] = "payload")

\* C6: a reader that polls with data pending while another thread holds the
\* port lock goes back to its loop test, having read nothing and without the
\* lock; the only way from the poll into a read is an acquire of a free lock.
C6_ReaderNeverBlocks ==
    [][\A t \in Inst :
          (rpc[t] = "poll" /\ rpc'[t] # "poll") =>
              \/ /\ rpc'[t] = "type"
                 /\ port_lock[t] = "free" /\ port_lock'[t] = "reader"
                 /\ inbuf' = inbuf
              \/ /\ rpc'[t] = "loop"
                 /\ port_lock'[t] = port_lock[t]
                 /\ inbuf' = inbuf]_vars

\* C6 witness: the reader polled with data pending while a caller held the
\* port lock, and is back at its loop test; the data is still pending.
C6_Witness ==
    /\ last_poll[1] = "contended" /\ rpc[1] = "loop" /\ IsAlive(1)
    /\ port_lock[1] = "c1" /\ inbuf["p1"] # <<>>

\* C8: a retrieve ends by returning an event or by raising TimeoutError.
C8_RetrieveOutcomes ==
    \A c \in Callers : RetrieveEnded(c) => result[c].kind \in {"event", "TimeoutError"}

\* C9: a whole async frame goes to the async callback when one is registered
\* and is dropped otherwise.
C9_AsyncNeverEvent ==
    \A t \in Inst :
        (disp[t].type = <<PT_ASYNC>> /\ disp[t].whole) =>
            disp[t].out = (IF async_callback[t] THEN "async_cb" ELSE "dropped")

\* C10: a whole event frame is queued when its code is command-complete, and
\* otherwise goes to the event callback when one is registered and is dropped
\* when none is.
C10_EventDispatch ==
    \A t \in Inst :
        (disp[t].type = <<PT_EVENT>> /\ disp[t].whole) =>
            disp[t].out = (IF disp[t].code = <<EC_COMMAND_COMPLETE>> THEN "queued"
                           ELSE IF evt_callback[t] THEN "evt_cb" ELSE "dropped")

\* The transports of port p whose reader thread is running.
LiveReaders(p) == {t \in Inst : port_id[t] = p /\ IsAlive(t)}

\* C7: at most one transport per port has a running reader, that transport
\* is the one the registry maps the port to, and every other transport
\* constructed on the port has had its reader ended.
C7_OneLiveReaderPerPort ==
    \A p \in Ports :
        /\ Cardinality(LiveReaders(p)) <= 1
        /\ \A t \in LiveReaders(p) : instances[p] = t

\* C7 witness: a second transport was constructed on the port of a first
\* whose reader was running: the first's reader has ended by the stop flag,
\* the second's runs, and the registry maps the port to the second.
C7_Witness ==
    /\ port_id[1] = "p1" /\ port_id[2] = "p1"
    /\ thread[1] = "done" /\ thread_err[1] = "" /\ kill_evt[1]
    /\ IsAlive(2) /\ instances["p1"] = 2
    /\ cop["c1"] = "construct" /\ cpc["c1"] = "idle"

\* ------------------------------------------------- claims on the life cycle
StopEnded(c) == cop[c] = "stop" /\ cpc[c] = "idle" /\ result[c].kind # "none"
CloseEnded(c) == cop[c] = "close" /\ cpc[c] = "idle" /\ result[c].kind # "none"
ExitEnded(c) == cop[c] = "exit" /\ cpc[c] = "idle" /\ result[c].kind # "none"
StartEnded(c) ==
    cop[c] \in {"start", "enter"} /\ cpc[c] = "idle" /\ result[c].kind # "none"

\* The reader is inside an iteration that has taken the port lock.
MidFrame(t) == rpc[t] \in {"type", "hdr", "payload", "lock", "dispatch", "cb"}

\* What a transport consists of, the bytes on its line aside.
TransportState(t) ==
    <<port_open[t], event_packets[t], n_appended[t], thread[t], thread_err[t],
      kill_evt[t], data_lock[t], port_lock[t], rpc[t], disp[t]>>

\* C11: no frame ends the reader: a reader thread that has ended was ended by
\* the stop flag, never by an exception raised while reading or decoding.
C11_ReaderSurvivesBadFrames ==
    \A t \in Inst : thread_err[t] = "" /\ (thread[t] = "done" => kill_evt[t])

\* C12: start() and __enter__ on a constructed transport return without an
\* error and the transport's reader thread is running.
C12_StartSucceeds ==
    \A c \in Callers :
        StartEnded(c) => result[c].kind = "ok" /\ IsAlive(cinst[c])

\* C13: an __exit__ is never left waiting for a port lock whose holder has
\* ended (such an exit never completes), and an __exit__ that has returned
\* leaves the reader ended and the port closed.
C13_ExitCompletes ==
    \A c \in Callers :
        /\ cpc[c] = "exit_lock" =>
              ~(port_lock[cinst[c]] = "reader" /\ ~IsAlive(cinst[c]))
        /\ ExitEnded(c) =>
              result[c].kind = "ok" /\ ~IsAlive(cinst[c]) /\ ~port_open[cinst[c]]

\* C14: a stop() that has returned returned without error and the reader has
\* ended; a reader that has ended stays ended, appends no event and calls no
\* callback; a stop() on a transport whose reader a stop has ended changes
\* nothing of the transport.
C14_StopIdempotent ==
    /\ [](\A c \in Callers :
            StopEnded(c) => result[c].kind = "ok" /\ thread[cinst[c]] = "done")
    /\ [][\A t \in Inst :
            thread[t] = "done" =>
                /\ thread'[t] = "done"
                /\ n_appended'[t] = n_appended[t]
                /\ disp'[t] = disp[t]]_vars
    /\ [][\A c \in Callers :
            (/\ cop[c] = "stop" /\ cpc[c] \in {"stop_set", "join"}
             /\ kill_evt[cinst[c]] /\ thread[cinst[c]] = "done")
                => TransportState(cinst[c])' = TransportState(cinst[c])]_vars

\* C14 witness: a second stop() has returned: the operation before it was a
\* stop() too, and the reader had ended when the second began.
C14_Witness ==
    /\ StopEnded("c1") /\ result["c1"].kind = "ok"
    /\ start_mark["c1"].prev = "stop" /\ ~start_mark["c1"].alive
    /\ kill_evt[1] /\ thread[1] = "done"

\* C15: a close() that has returned returned without error, the reader has
\* ended and the port is closed; a transport in that state stays in it
\* whatever is called on it; a close() on a transport already stopped and
\* closed changes nothing of the transport.
C15_CloseTerminal ==
    /\ [](\A c \in Callers :
            CloseEnded(c) =>
                /\ result[c].kind = "ok"
                /\ thread[cinst[c]] = "done" /\ ~port_open[cinst[c]])
    /\ [][\A t \in Inst :
            (Constructed(t) /\ thread[t] = "done" /\ ~port_open[t])
                => thread'[t] = "done" /\ ~port_open'[t]]_vars
    /\ [][\A c \in Callers :
            (/\ cop[c] = "close" /\ cpc[c] # "idle"
             /\ ~start_mark[c].alive /\ ~start_mark[c].open)
                => TransportState(cinst[c])' = TransportState(cinst[c])]_vars

\* C15 witness: a second close() has returned: the operation before it was a
\* close() too, the reader had ended and the port was closed when it began.
C15_Witness ==
    /\ CloseEnded("c1") /\ result["c1"].kind = "ok"
    /\ start_mark["c1"].prev = "close"
    /\ ~start_mark["c1"].alive /\ ~start_mark["c1"].open
    /\ thread[1] = "done" /\ ~port_open[1]

C17_QueueUnderDataLock ==
    /\ [](\A t \in Inst :
            (IsAlive(t) /\ rpc[t] \in {"dispatch", "cb"}) => data_lock[t] = "reader")
    /\ [](\A c \in Callers : cpc[c] = "rpop" => data_lock[cinst[c]] = c)
    /\ [][\A t \in Inst :
            /\ n_appended'[t] # n_appended[t] => data_lock[t] = "reader"
            /\ returned'[t] # returned[t] => data_lock[t] \in Callers]_vars

\* C17 witness: the reader has a frame read and waits for the data lock while
\* a caller holds it at its pop.
C17_Witness ==
    /\ IsAlive(1) /\ rpc[1] = "lock"
    /\ cpc["c1"] = "rpop" /\ data_lock[1] = "c1" /\ cinst["c1"] = 1

\* ------------------------------------------------ claims on port independence
\* The port the operation of caller c is about.
OpPort(c) == IF cop[c] = "construct" THEN cargs[c].port ELSE port_id[cinst[c]]

\* What a caller thread is doing.
CallerState(c) ==
    <<cpc[c], cop[c], cinst[c], cpkt[c], cargs[c], tries[c], timer[c], result[c]>>

\* C18: a step of a caller whose operation is about another port, and a step
\* that changes a transport of another port (a step of that transport's
\* reader included), leaves a transport's reader, locks, stop flag, queue and
\* port, and the bytes on its line, as they were.
C18_PortsIndependent ==
    [][\A t \in Inst :
          Constructed(t) =>
              /\ \A c \in Callers :
                    (CallerState(c)' # CallerState(c) /\ OpPort(c)' # port_id[t]) =>
                        /\ TransportState(t)' = TransportState(t)
                        /\ inbuf'[port_id[t]] = inbuf[port_id[t]]
                        /\ written'[port_id[t]] = written[port_id[t]]
              /\ \A u \in Inst :
                    (/\ Constructed(u) /\ port_id[u] # port_id[t]
                     /\ TransportState(u)' # TransportState(u)) =>
                        /\ TransportState(t)' = TransportState(t)
                        /\ inbuf'[port_id[t]] = inbuf[port_id[t]]]_vars

\* C18 witness: a transport was constructed on port p2 and stopped while the
\* transport of port p1 has its reader running and its stop flag clear.
C18_Witness ==
    /\ port_id[1] = "p1" /\ port_id[2] = "p2"
    /\ StopEnded("c1") /\ cinst["c1"] = 2
    /\ thread[2] = "done" /\ kill_evt[2]
    /\ IsAlive(1) /\ ~kill_evt[1]

\* ------------------------------------------------ claims on the command encoder
\* C19: for ints g in 0..0x3F and c in 0..0x3FF make_hci_opcode returns the
\* value g * 2^10 + c, which is at most 0xFFFF, and opcode >> 10 and
\* opcode & 0x3FF give g and c back.
C19_OpcodeRoundTrip ==
    (/\ call.fn = "make_hci_opcode" /\ ret # NoRet
     /\ call.ogf.type = "int" /\ call.ocf.type = "int") =>
        /\ ret.kind = "value"
        /\ ret.v = call.ogf.v * 1024 + call.ocf.v
        /\ ret.v <= 65535
        /\ ShiftRight(ret.v, 10) = call.ogf.v
        /\ BitAnd(ret.v, 1023) = call.ocf.v

\* C19 witness: group 0x3F and command 0x3FF gave 0xFFFF.
C19_Witness ==
    /\ call.fn = "make_hci_opcode"
    /\ call.ogf = IntV(63) /\ call.ocf = IntV(1023)
    /\ ret = Value(65535)

\* The parameters of a call as a list (None and one int included).
ParamList(params) == params.v

\* v can be written in its minimal width: v >= 0, or v negative and within
\* the signed range of that width.
Encodable(v) == v >= 0 \/ v >= 0 - (Pow256(ByteLength(v)) \div 2)

\* The integer a parameter's bytes stand for: unsigned, or two's complement
\* for a parameter that was negative.
DecodeParam(bytes, byteorder, negative) ==
    LET u == LeListToInt(IF byteorder = "little" THEN bytes ELSE Reverse(bytes))
    IN IF negative THEN u - Pow256(Len(bytes)) ELSE u

\* bytes is, parameter after parameter and in their order, each parameter in
\* its minimal width, and nothing else.
RECURSIVE ParamsIn(_, _, _)
ParamsIn(bytes, params, byteorder) ==
    IF Len(params) = 0 THEN bytes = <<>>
    ELSE IF Len(params) = 1
    THEN /\ Len(bytes) = ByteLength(params[1])
         /\ DecodeParam(bytes, byteorder, params[1] < 0) = params[1]
    ELSE LET n == SumByteLength(LeftHalf(params)) IN
         /\ Len(bytes) >= n
         /\ ParamsIn(SubSeq(bytes, 1, n), LeftHalf(params), byteorder)
         /\ ParamsIn(SliceFrom(bytes, n), RightHalf(params), byteorder)

\* C20: a command whose parameters are all encodable and at most 255 bytes
\* wide in total is serialized (no error); the frame is the command tag, the opcode's low and high byte, a
\* length byte equal to the number of bytes after it, and the parameters in
\* their order; group 0x3F, command 1, params [1] gives 01 01 FC 01 01.
C20_CommandFrame ==
    (call.fn = "to_bytes" /\ ret # NoRet) =>
        LET ps == ParamList(call.params)
            op == call.ogf.v * 1024 + call.ocf.v
        IN /\ ((\A i \in 1..Len(ps) : Encodable(ps[i])) /\ SumByteLength(ps) <= 255)
                 => ret.kind = "value"
           /\ ret.kind = "value" =>
                 /\ Len(ret.v) >= 4
                 /\ ret.v[1] = 1
                 /\ ret.v[2] = op % 256
                 /\ ret.v[3] = op \div 256
                 /\ ret.v[4] = Len(ret.v) - 4
                 /\ ps = <<>> => ret.v[4] = 0
                 /\ ParamsIn(SliceFrom(ret.v, 4), ps, call.endianness)
           /\ (/\ call.ogf.v = 63 /\ call.ocf.v = 1
               /\ call.params = ListParams(<<1>>)) => ret = Value(<<1, 1, 252, 1, 1>>)

\* C20 witness: group 0x3F, command 1, params [1], little endian: the frame
\* 01 01 FC 01 01.
C20_Witness ==
    /\ call.fn = "to_bytes"
    /\ call.ogf = IntV(63) /\ call.ocf = IntV(1)
    /\ call.params = ListParams(<<1>>) /\ call.endianness = "little"
    /\ ret = Value(<<1, 1, 252, 1, 1>>)

\* The least n >= 1 with |v| < 256^n: max(ceil(bit_length(v) / 8), 1).
RECURSIVE MinWidthFrom(_, _)
MinWidthFrom(v, n) == IF Abs(v) < Pow256(n) THEN n ELSE MinWidthFrom(v, n + 1)
MinWidth(v) == MinWidthFrom(v, 1)

\* v is within the two's-complement range of n bytes.
FitsSigned(v, n) == v >= 0 - (Pow256(n) \div 2) /\ v < Pow256(n) \div 2

\* The bytes the parameter v is to be written as: its minimal width, the
\* unsigned value for v >= 0 and the two's complement for v < 0, in the byte
\* order asked for.
ExpectedBytes(v, byteorder) ==
    LET n == MinWidth(v)
        u == IF v >= 0 THEN v ELSE v + Pow256(n)
    IN [i \in 1..n |->
            (u \div Pow256(IF byteorder = "little" THEN i - 1 ELSE n - i)) % 256]

RECURSIVE ExpectedTail(_, _)
ExpectedTail(ps, byteorder) ==
    IF Len(ps) = 0 THEN <<>>
    ELSE IF Len(ps) = 1 THEN ExpectedBytes(ps[1], byteorder)
    ELSE ExpectedTail(LeftHalf(ps), byteorder) \o ExpectedTail(RightHalf(ps), byteorder)

\* C21: (for a total width of at most 255) to_bytes fails exactly when some
\* parameter is negative and outside the signed range of its minimal width,
\* and then raises and returns no frame; otherwise the bytes after the length
\* byte are, parameter by parameter, each parameter in its minimal width, as
\* the unsigned value or the two's complement, in the byte order selected.
C21_ParamEncoding ==
    (call.fn = "to_bytes" /\ ret # NoRet /\ SumByteLength(ParamList(call.params)) <= 255) =>
        LET ps == ParamList(call.params) IN
        /\ (ret.kind = "error") <=>
              (\E i \in 1..Len(ps) : ps[i] < 0 /\ ~FitsSigned(ps[i], MinWidth(ps[i])))
        /\ ret.kind = "error" => ret = Error("OverflowError")
        /\ ret.kind = "value" =>
              SliceFrom(ret.v, 4) = ExpectedTail(ps, call.endianness)

\* C21 witness: params [-1, 256], little endian: FF, then 00 01.
C21_Witness ==
    /\ call.fn = "to_bytes"
    /\ call.ogf = IntV(63) /\ call.ocf = IntV(1)
    /\ call.params = ListParams(<<-1, 256>>) /\ call.endianness = "little"
    /\ ret = Value(<<1, 1, 252, 3, 255, 0, 1>>)

\* C29 as stated: a command whose parameters are more than 255 bytes wide in
\* total is serialized, with the total modulo 256 as its length byte.
C29_LongCommandTruncates ==
    (/\ call.fn = "to_bytes" /\ ret # NoRet
     /\ SumByteLength(ParamList(call.params)) > 255) =>
        /\ ret.kind = "value"
        /\ ret.v[4] = SumByteLength(ParamList(call.params)) % 256

\* C29, amended: a command whose parameters are more than 255 bytes wide in
\* total is not serialized: to_bytes raises ValueError (from the append of
\* the length to the bytearray) and returns no frame.
C29_LongCommandRaises ==
    (/\ call.fn = "to_bytes" /\ ret # NoRet
     /\ SumByteLength(ParamList(call.params)) > 255) =>
        ret = Error("ValueError")

\* C29 witness: 256 one-byte params: ValueError.
C29_Witness ==
    /\ call.fn = "to_bytes"
    /\ call.params = ListParams(Repeat(1, 256))
    /\ ret = Error("ValueError")

\* ------------------------------------------------- reading integers back
\* _utils.py, to_le_nbyte_list and hci_packets.py, get_return_params.
\* value & mask for a mask >= 0: on a negative int Python's & acts on the
\* two's complement, of which only the bits under the mask matter.
AndMask(value, mask) == BitAnd(value % Pow2(BitLength(mask)), mask)

\* A to_le_nbyte_list that puts the most significant byte first.
ToBeNbyteList(value, n_bytes) ==
    [i \in 1..n_bytes |->
        ShiftRight(AndMask(value, ShiftLeft(255, 8 * (n_bytes - i))), 8 * (n_bytes - i))]

\* to_le_nbyte_list: (value & (0xFF << 8 * i)) >> (8 * i) for i in range(n_bytes)
ToLeNbyteList(value, n_bytes) ==
    [i \in 1..n_bytes |->
        ShiftRight(AndMask(value, ShiftLeft(255, 8 * (i - 1))), 8 * (i - 1))]

\* int.from_bytes(bytes, byteorder, signed=...): b'' is 0; signed reads the
\* two's complement.
RECURSIVE UnsignedLe(_)
UnsignedLe(bytes) ==
    IF bytes = <<>> THEN 0 ELSE Head(bytes) + 256 * UnsignedLe(Tail(bytes))

IntFromBytes(bytes, byteorder, signed) ==
    LET u == UnsignedLe(IF byteorder = "little" THEN bytes ELSE Reverse(bytes))
    IN IF signed /\ bytes # <<>> /\ u >= Pow256(Len(bytes)) \div 2
       THEN u - Pow256(Len(bytes))
       ELSE u

\* sum(param_lens)
RECURSIVE SumLens(_)
SumLens(param_lens) ==
    IF param_lens = <<>> THEN 0 ELSE Head(param_lens) + SumLens(Tail(param_lens))

\* The loop of get_return_params: param_bytes[p_idx : p_idx + p_len] for each
\* width, p_idx advancing; the reads are unsigned (signed is not passed on).
RECURSIVE ReturnParamsLoop(_, _, _, _)
ReturnParamsLoop(param_bytes, p_idx, param_lens, byteorder) ==
    IF param_lens = <<>> THEN <<>>
    ELSE LET p_len == Head(param_lens) IN
         <<IntFromBytes(SubSeq(param_bytes, p_idx + 1, p_idx + p_len), byteorder, FALSE)>>
         \o ReturnParamsLoop(param_bytes, p_idx + p_len, Tail(param_lens), byteorder)

\* The test of get_return_params that raises ValueError, and one that also
\* refuses widths that use the bytes up.
LengthMismatchOrEqual(expected, actual) == expected >= actual
LengthMismatch(expected, actual) == expected > actual

\* The return-value region that always skips four bytes, and the one of
\* get_return_params: evt_params, or evt_params[4:].
ReturnRegionSkipping(evt_params, use_raw) == SliceFrom(evt_params, 4)
ReturnRegion(evt_params, use_raw) ==
    IF use_raw THEN evt_params ELSE SliceFrom(evt_params, 4)

\* EventPacket.get_return_params; param_lens is None or a list ('not
\* param_lens' holds for None and for the empty list).
GetReturnParams(evt_params, param_lens, byteorder, use_raw, signed) ==
    LET param_bytes == ReturnRegion(evt_params, use_raw) IN
    IF param_lens = None \/ param_lens[1] = <<>>
    THEN Value(IntFromBytes(param_bytes, byteorder, signed))
    ELSE IF LengthMismatch(SumLens(param_lens[1]), Len(param_bytes))
    THEN Error("ValueError")
    ELSE Value(ReturnParamsLoop(param_bytes, 0, param_lens[1], byteorder))

\* ------------------------------------------------------------ round trips
\* The integers tried: every one from -MaxValue to MaxValue (one, two and
\* three bytes wide).
MaxValue == 66000
RoundTripCalls == {[fn |-> "round_trip", v |-> x] : x \in (0 - MaxValue)..MaxValue}

\* v written in its minimal width and read back, by the two helpers of
\* _utils.py, and by CommandPacket.to_bytes (little endian) with
\* get_return_params (raw, no widths) read unsigned and read signed.
RoundTrip(v) ==
    LET le_list == ToLeNbyteList(v, ByteLength(v))
        enc == ParamBytes(v, "little")
    IN [le_list |-> le_list,
        from_list |-> LeListToInt(le_list),
        enc |-> enc,
        unsigned |-> IF enc.kind = "error" THEN enc
                     ELSE GetReturnParams(enc.v, None, "little", TRUE, FALSE),
        signed |-> IF enc.kind = "error" THEN enc
                   ELSE GetReturnParams(enc.v, None, "little", TRUE, TRUE)]

RoundTripCall ==
    /\ call.fn = "round_trip" /\ ret = NoRet
    /\ ret' = Value(RoundTrip(call.v))
    /\ UNCHANGED <<call, transportVars>>

SpecRoundTrip == InitCall(RoundTripCalls) /\ [][RoundTripCall]_vars

\* C22 as stated: every integer, of either sign, written little endian in
\* its minimal width is recovered by reading the bytes back little endian
\* (by le_list_to_int from the list, and from the bytes of to_bytes read
\* with the signedness of the integer).
C22_RoundTripAnySign ==
    (call.fn = "round_trip" /\ ret # NoRet) =>
        /\ ret.v.from_list = call.v
        /\ (IF call.v < 0 THEN ret.v.signed ELSE ret.v.unsigned) = Value(call.v)

\* C22, amended: an integer v >= 0 is recovered by both ways of reading
\* (unsigned).  A negative v that fits the signed range of its minimal width
\* n is recovered only by the signed reading of the bytes of to_bytes; the
\* unsigned reading and le_list_to_int give v + 256^n.  A negative v outside
\* that range is not written by to_bytes at all (OverflowError), and the two
\* helpers give v modulo 256^n.
C22_RoundTrip ==
    (call.fn = "round_trip" /\ ret # NoRet) =>
        LET v == call.v
            n == MinWidth(v)
            r == ret.v
        IN /\ Len(r.le_list) = n
           /\ v >= 0 => /\ r.from_list = v
                        /\ r.enc.kind = "value" /\ Len(r.enc.v) = n
                        /\ r.unsigned = Value(v)
           /\ (v < 0 /\ FitsSigned(v, n)) =>
                        /\ r.enc.kind = "value" /\ Len(r.enc.v) = n
                        /\ r.signed = Value(v)
                        /\ r.unsigned = Value(v + Pow256(n))
                        /\ r.from_list = v + Pow256(n)
           /\ (v < 0 /\ ~FitsSigned(v, n)) =>
                        /\ r.enc = Error("OverflowError")
                        /\ r.from_list = v % Pow256(n)
                        /\ r.from_list # v

\* C22 witness: -128 goes out as 80 and comes back as -128 read signed, as
\* 128 read unsigned or by le_list_to_int.
C22_Witness ==
    /\ call.fn = "round_trip" /\ call.v = 0 - 128
    /\ ret # NoRet
    /\ ret.v.le_list = <<128>> /\ ret.v.from_list = 128
    /\ ret.v.enc = Value(<<128>>)
    /\ ret.v.signed = Value(0 - 128) /\ ret.v.unsigned = Value(128)

\* --------------------------------------------------------- decoding events
\* The event codes with a branch of their own in from_bytes.
SpecialCodes ==
    {EC_COMMAND_COMPLETE, EC_HARDWARE_ERROR, EC_NUM_COMPLETED_PACKETS,
     EC_DATA_BUFF_OVERFLOW, EC_LE_META, EC_AUTH_PAYLOAD_TIMEOUT_EXPIRED}

\* The frames decoded: up to MaxEventLen bytes (the empty frame included),
\* the first a special code, a member of EventCode without a branch, or a
\* code that is no member (0xFE); the others 0, 1, 3 or 0xFC.
MaxEventLen == 6
UnknownCode == 254
FirstBytes == SpecialCodes \cup {EC_DISCONNECT_COMPLETE, UnknownCode}
OtherBytes == {0, 1, 3, 252}

RECURSIVE ByteSeqs(_, _)
ByteSeqs(bytes, n) ==
    IF n = 0 THEN {<<>>}
    ELSE ByteSeqs(bytes, n - 1)
         \cup {Append(l, b) : l \in {x \in ByteSeqs(bytes, n - 1) : Len(x) = n - 1},
                              b \in bytes}

EventFrames ==
    {<<>>} \cup {<<c>> \o rest : c \in FirstBytes, rest \in ByteSeqs(OtherBytes, MaxEventLen - 1)}

EventFromBytesCalls == {[fn |-> "from_bytes", serialized_event |-> se] : se \in EventFrames}

\* EventPacket.from_bytes(serialized_event)
EventFromBytesCall ==
    /\ call.fn = "from_bytes" /\ ret = NoRet
    /\ ret' = EventFromBytes(call.serialized_event)
    /\ UNCHANGED <<call, transportVars>>

SpecEvent == InitCall(EventFromBytesCalls) /\ [][EventFromBytesCall]_vars

\* C23: a command-complete frame (its status byte a status code) decodes to
\* a command-complete event whose status is the byte at offset 5, 0x00
\* included, and whose return values are the bytes after offset 5.
C23_CommandCompleteStatus ==
    (/\ call.fn = "from_bytes" /\ ret # NoRet
     /\ Len(call.serialized_event) >= 6
     /\ call.serialized_event[1] = EC_COMMAND_COMPLETE
     /\ call.serialized_event[6] \in StatusCodeValues) =>
        /\ ret.ok
        /\ ret.evt_code = EC_COMMAND_COMPLETE
        /\ ret.status = Some(call.serialized_event[6])
        /\ ReturnRegion(ret.evt_params, FALSE) = SliceFrom(call.serialized_event, 6)

\* C24: a frame whose code has no branch of its own, a code unknown to the
\* decoder included, decodes without failure (its status byte being the
\* hardware-failure status code): status from offset 2, params from offset 3.
C24_GenericDecodeNeverFails ==
    (/\ call.fn = "from_bytes" /\ ret # NoRet
     /\ Len(call.serialized_event) >= 3
     /\ call.serialized_event[1] \notin SpecialCodes
     /\ call.serialized_event[3] = LL_ERROR_CODE_HW_FAILURE) =>
        /\ ret.ok
        /\ ret.status = Some(call.serialized_event[3])
        /\ ret.evt_params = SliceFrom(call.serialized_event, 3)

\* C25: a HARDWARE_ERROR frame decodes to an event with that code, the
\* length byte of offset 1 and the hardware-failure status, whatever the
\* payload.
C25_HardwareErrorDecodes ==
    (/\ call.fn = "from_bytes" /\ ret # NoRet
     /\ Len(call.serialized_event) >= 2
     /\ call.serialized_event[1] = EC_HARDWARE_ERROR) =>
        /\ ret.ok
        /\ ret.evt_code = EC_HARDWARE_ERROR
        /\ ret.length = call.serialized_event[2]
        /\ ret.status = Some(LL_ERROR_CODE_HW_FAILURE)

\* ---------------------------------------------------- decoding async frames
\* The frames decoded: a first byte (handle nibble and flags), a second byte
\* (handle high), two length bytes and up to MaxData data bytes; and some
\* frames shorter than the header.
MaxData == 2
AsyncFirstBytes == {0, 14, 47, 240, 255}
AsyncSecondBytes == {0, 15, 16, 255}
AsyncLengthBytes == {0, 2, 255}
AsyncDataBytes == {0, 170}

AsyncFrames ==
    {<<a, b, l, m>> \o d : a \in AsyncFirstBytes, b \in AsyncSecondBytes,
                           l \in AsyncLengthBytes, m \in AsyncLengthBytes,
                           d \in ByteSeqs(AsyncDataBytes, MaxData)}
    \cup {<<>>, <<14>>, <<14, 0>>, <<14, 0, 2>>}

AsyncFromBytesCalls == {[fn |-> "async_from_bytes", pkt |-> f] : f \in AsyncFrames}

\* AsyncPacket.from_bytes(pkt)
AsyncFromBytesCall ==
    /\ call.fn = "async_from_bytes" /\ ret = NoRet
    /\ ret' = AsyncFromBytes(call.pkt)
    /\ UNCHANGED <<call, transportVars>>

SpecAsync == InitCall(AsyncFromBytesCalls) /\ [][AsyncFromBytesCall]_vars

\* C26: every async frame with its four header bytes decodes to a handle of
\* 12 bits (0..0xFFF), a PB flag and a BC flag of 2 bits each, taken from
\* the first byte, the length byte2 | (byte3 << 8), and the bytes from
\* offset 4 on as data.
C26_AsyncHeader ==
    (call.fn = "async_from_bytes" /\ ret # NoRet /\ Len(call.pkt) >= 4) =>
        /\ ret.ok
        /\ ret.handle \in 0..4095
        /\ ret.pb_flag \in 0..3 /\ ret.pb_flag = BitAnd(call.pkt[1], 12) \div 4
        /\ ret.bc_flag \in 0..3 /\ ret.bc_flag = BitAnd(call.pkt[1], 3)
        /\ ret.length = BitOr(call.pkt[3], ShiftLeft(call.pkt[4], 8))
        /\ \/ ret.data = Some(SliceFrom(call.pkt, 4))
           \/ ret.data = None /\ SliceFrom(call.pkt, 4) = <<>>

\* ------------------------------------------------- reading return values
\* The events read: evt_params is a return-value region of up to MaxReturn
\* bytes, alone or after the four bytes num-packets, opcode echo, status;
\* the widths asked for are None, the empty list, or up to MaxWidths widths
\* of 0..MaxReturn bytes.  Without widths the raw reading takes the whole of
\* evt_params as one integer, so it is given the regions alone.
MaxReturn == 2
MaxWidths == 2
ReturnBytes == {1, 128, 255}
ReturnHeaders == {<<1, 1, 252, 0>>, <<1, 2, 252, 3>>}
Regions == ByteSeqs(ReturnBytes, MaxReturn)
EvtParams == Regions \cup {hd \o r : hd \in ReturnHeaders, r \in Regions}
WidthLists == ByteSeqs(0..MaxReturn, MaxWidths) \ {<<>>}

GetReturnParamsCalls ==
    {[fn |-> "get_return_params", evt_params |-> ep, param_lens |-> pl,
      endianness |-> e, use_raw |-> raw, signed |-> sg] :
        ep \in EvtParams, pl \in {Some(w) : w \in WidthLists},
        e \in {"little", "big"}, raw \in BOOLEAN, sg \in BOOLEAN}
    \cup
    {[fn |-> "get_return_params", evt_params |-> ep, param_lens |-> pl,
      endianness |-> e, use_raw |-> FALSE, signed |-> sg] :
        ep \in EvtParams, pl \in {None, Some(<<>>)},
        e \in {"little", "big"}, sg \in BOOLEAN}
    \cup
    {[fn |-> "get_return_params", evt_params |-> ep, param_lens |-> pl,
      endianness |-> e, use_raw |-> TRUE, signed |-> sg] :
        ep \in Regions, pl \in {None, Some(<<>>)},
        e \in {"little", "big"}, sg \in BOOLEAN}

\* event.get_return_params(param_lens, endianness, use_raw, signed)
GetReturnParamsCall ==
    /\ call.fn = "get_return_params" /\ ret = NoRet
    /\ ret' = GetReturnParams(call.evt_params, call.param_lens, call.endianness,
                              call.use_raw, call.signed)
    /\ UNCHANGED <<call, transportVars>>

SpecReturn == InitCall(GetReturnParamsCalls) /\ [][GetReturnParamsCall]_vars

\* The return-value region of a call: the payload, without its first four
\* bytes unless raw is asked for.
RegionOf(c) == IF c.use_raw THEN c.evt_params ELSE SliceFrom(c.evt_params, 4)

\* The i-th slice of region for the widths ws: ws[i] bytes after the bytes
\* of the widths before it.
SliceOf(region, ws, i) ==
    SubSeq(region, SumLens(SubSeq(ws, 1, i - 1)) + 1, SumLens(SubSeq(ws, 1, i)))

\* The most significant byte of bytes has its top bit set.
TopBitSet(bytes, byteorder) ==
    /\ bytes # <<>>
    /\ (IF byteorder = "little" THEN bytes[Len(bytes)] ELSE bytes[1]) >= 128

\* C27: with a non-empty list of widths get_return_params fails exactly when
\* the widths add up to more than the bytes of the region, with ValueError
\* and no values; otherwise it returns as many integers as widths, the i-th
\* read (unsigned, in the byte order asked for) from the i-th consecutive
\* slice of the region.
C27_ReturnValuesByWidth ==
    (/\ call.fn = "get_return_params" /\ ret # NoRet
     /\ call.param_lens # None /\ call.param_lens[1] # <<>>) =>
        LET ws == call.param_lens[1]
            region == RegionOf(call)
        IN /\ (ret.kind = "error") <=> (SumLens(ws) > Len(region))
           /\ ret.kind = "error" => ret = Error("ValueError")
           /\ ret.kind = "value" =>
                /\ Len(ret.v) = Len(ws)
                /\ \A i \in 1..Len(ws) :
                      ret.v[i] = DecodeParam(SliceOf(region, ws, i), call.endianness, FALSE)

\* C27 witness: region 01 80 after the four header bytes, widths [1, 1]:
\* the values 1 and 128.
C27_Witness ==
    /\ call.fn = "get_return_params"
    /\ call.evt_params = <<1, 1, 252, 0, 1, 128>>
    /\ call.param_lens = Some(<<1, 1>>) /\ ~call.use_raw
    /\ ret = Value(<<1, 128>>)

\* C28: without widths get_return_params returns the whole region as one
\* integer, in the byte order asked for, two's complement when signed is
\* asked for; the region is the payload without its first four bytes, and
\* the whole payload when raw is asked for.
C28_ReturnValueWhole ==
    (/\ call.fn = "get_return_params" /\ ret # NoRet
     /\ (call.param_lens = None \/ call.param_lens[1] = <<>>)) =>
        LET region == RegionOf(call) IN
        ret = Value(DecodeParam(region, call.endianness,
                                call.signed /\ TopBitSet(region, call.endianness)))

\* C28 witness: region 01 80 after the four header bytes, little endian,
\* signed: 0x8001 as two's complement, -32767.
C28_Witness ==
    /\ call.fn = "get_return_params"
    /\ call.evt_params = <<1, 1, 252, 0, 1, 128>>
    /\ call.param_lens = None /\ ~call.use_raw
    /\ call.endianness = "little" /\ call.signed
    /\ ret = Value(0 - 32767)

\* ------------------------------------------------- two retrieving threads
\* One transport on port p1 (an event callback, no async callback), its
\* reader, and two threads that call retrieve_packet on it, while the peer
\* sends up to MaxFrames + 1 whole frames: command-complete events, and
\* NUM_COMPLETED_PACKETS events for the callback.  Nothing stops the reader.
InitPair ==
    /\ Quiet
    /\ instances = [p \in Ports |-> IF p = "p1" THEN 1 ELSE 0]
    /\ port_id = [t \in Inst |-> IF t = 1 THEN "p1" ELSE ""]
    /\ port_open = [t \in Inst |-> t = 1]
    /\ referenced = [t \in Inst |-> t = 1]
    /\ thread = [t \in Inst |-> IF t = 1 THEN "alive" ELSE "none"]
    /\ async_callback = [t \in Inst |-> FALSE]
    /\ evt_callback = [t \in Inst |-> t = 1]
    /\ retries = [t \in Inst |-> 0]
    /\ peer_left = MaxFrames + 1
    /\ ops_left = MaxOps
    /\ call = NoCall /\ ret = NoRet

RetrieveStep(c) ==
    \/ RetrieveStart(c)
    \/ RetrieveWhile(c)
    \/ RetrieveCheck(c)
    \/ RetrieveTimer(c)
    \/ TimerExpire(c)
    \/ RetrieveLock(c)
    \/ RetrievePop(c)

NextPair ==
    \/ \E c \in Callers : RetrievePacket(c, 1)
    \/ \E c \in Callers : RetrieveStep(c)
    \/ Reader(1)
    \/ \E pkt \in CmdPkts : PeerSend("p1", CompleteFrame(pkt))
    \/ PeerSend("p1", NumCompletedFrame)

SpecPair == InitPair /\ [][NextPair]_vars

\* C30: with two threads in retrieve on one transport (its reader alive),
\* the completion events are handed out in the order of their enqueueing,
\* each to one thread only, and a retrieve ends only by returning an event
\* or by raising TimeoutError.
C30_ConcurrentRetrieve ==
    /\ returned[1] = [i \in 1..Len(returned[1]) |-> i]
    /\ \A c \in Callers :
          RetrieveEnded(c) => result[c].kind \in {"event", "TimeoutError"}
    /\ \A c \in Callers, d \in Callers :
          (c # d /\ RetrieveEnded(c) /\ RetrieveEnded(d)
             /\ result[c].kind = "event" /\ result[d].kind = "event")
          => result[c].id # result[d].id

\* ----------------------------------------------------- the reader's locks
\* C31: the port lock is held by the reader only inside the frame read of a
\* running reader thread (type byte, header, payload): a reader thread that
\* has ended never holds it.
C31_PortLockReleased ==
    \A t \in Inst :
        port_lock[t] = "reader" =>
            IsAlive(t) /\ rpc[t] \in {"type", "hdr", "payload"}

\* ------------------------------------------------ whole frames on the wire
\* One transport on port p1 and its reader, while the peer sends up to
\* MaxFrames + 2 whole frames, back to back or apart: events, command
\* completions and async frames.
InitWire ==
    /\ Quiet
    /\ instances = [p \in Ports |-> IF p = "p1" THEN 1 ELSE 0]
    /\ port_id = [t \in Inst |-> IF t = 1 THEN "p1" ELSE ""]
    /\ port_open = [t \in Inst |-> t = 1]
    /\ referenced = [t \in Inst |-> t = 1]
    /\ thread = [t \in Inst |-> IF t = 1 THEN "alive" ELSE "none"]
    /\ \E a \in BOOLEAN : async_callback = [t \in Inst |-> a /\ t = 1]
    /\ \E e \in BOOLEAN : evt_callback = [t \in Inst |-> e /\ t = 1]
    /\ retries = [t \in Inst |-> 0]
    /\ peer_left = MaxFrames + 2
    /\ ops_left = 0
    /\ call = NoCall /\ ret = NoRet

NextWire ==
    \/ Reader(1)
    \/ \E f \in UnsolicitedFrames : PeerSend("p1", f)

SpecWire == InitWire /\ [][NextWire]_vars

\* The byte sequences made of up to n whole frames, one after the other.
RECURSIVE FrameRuns(_)
FrameRuns(n) ==
    IF n = 0 THEN {<<>>}
    ELSE {<<>>} \cup {f \o r : f \in UnsolicitedFrames, r \in FrameRuns(n - 1)}

\* C32: with whole frames on the wire, what the reader has taken in its
\* iteration followed by what is still unread is always a run of whole
\* frames; outside the frame read it has taken nothing, so the next byte it
\* reads is the first byte of a frame; and when the payload read is done it
\* has taken exactly one whole frame.
C32_FrameBoundaries ==
    LET got == pkt_type[1] \o read_data[1]
        rest == inbuf["p1"]
    IN /\ got \o rest \in FrameRuns(MaxFrames + 2)
       /\ rest \in FrameRuns(MaxFrames + 2)
          \/ (IsAlive(1) /\ rpc[1] \in {"hdr", "payload"})
       /\ (IsAlive(1) /\ rpc[1] \in {"lock", "dispatch"}) => got \in UnsolicitedFrames
       /\ (~IsAlive(1) \/ rpc[1] \in {"loop", "poll", "type", "cb"}) => got = <<>>

\* C32 witness: the reader has read an async frame (four header bytes, two
\* payload bytes) and the event frame sent behind it is still unread, whole.
C32_Witness ==
    /\ IsAlive(1) /\ rpc[1] = "lock"
    /\ pkt_type[1] \o read_data[1] = AsyncFrame
    /\ inbuf["p1"] = NumCompletedFrame

\* ------------------------------------------------- the completion queue
\* The ids of the entries of a queue, in their order.
QueueIds(q) == [i \in 1..Len(q) |-> q[i].id]

\* C33: the events appended are the events returned followed by the events
\* still queued, each once; the queue changes only by an append of the
\* reader or by the pop of a retrieve that returns the popped event to its
\* caller; a retrieve or send that ends with TimeoutError changes neither
\* the queue nor what has been returned.
C33_QueueConservation ==
    /\ [](\A t \in Inst :
            /\ n_appended[t] = Len(returned[t]) + Len(event_packets[t])
            /\ returned[t] \o QueueIds(event_packets[t]) = [i \in 1..n_appended[t] |-> i])
    /\ [][\A t \in Inst :
            event_packets'[t] # event_packets[t] =>
                \/ /\ Len(event_packets'[t]) = Len(event_packets[t]) + 1
                   /\ SubSeq(event_packets'[t], 1, Len(event_packets[t])) = event_packets[t]
                   /\ n_appended'[t] = n_appended[t] + 1
                   /\ returned'[t] = returned[t]
                \/ /\ event_packets[t] # <<>>
                   /\ event_packets'[t] = Tail(event_packets[t])
                   /\ returned'[t] = Append(returned[t], Head(event_packets[t]).id)
                   /\ \E c \in Callers :
                         /\ cinst[c] = t /\ cpc[c] = "rpop" /\ cpc'[c] = "idle"
                         /\ result'[c] = Returned(Head(event_packets[t]))]_vars
    /\ [][\A c \in Callers :
            (result'[c] # result[c] /\ result'[c].kind = "TimeoutError") =>
                event_packets' = event_packets /\ returned' = returned]_vars

\* C33 witness: two events appended, the older returned to a caller, the
\* younger still queued.
C33_Witness ==
    /\ n_appended[1] = 2
    /\ returned[1] = <<1>>
    /\ QueueIds(event_packets[1]) = <<2>>
    /\ \E c \in Callers : result[c].kind = "event" /\ result[c].id = 1

\* ------------------------------------------------ send without a reader
\* C34 as stated: a send begun on a transport whose reader thread is not
\* running writes the command once and ends with TimeoutError, without a
\* waiting attempt.
C34_DeadReaderSendWrites ==
    \A c \in Callers :
        (SendEnded(c) /\ ~start_mark[c].alive) =>
            /\ result[c].kind = "TimeoutError"
            /\ nwrites[c] = 1
            /\ attempts[c] = 0

\* C34, amended: a send begun on a transport whose reader thread is not
\* running and whose port is open writes the command once and ends with
\* TimeoutError, without a waiting attempt; when the port is closed it ends
\* with PortNotOpenError and has written nothing; and in neither case does a
\* step of it change the completion queue or what has been returned.
C34_DeadReaderSend ==
    /\ [](\A c \in Callers :
            (SendEnded(c) /\ ~start_mark[c].alive) =>
                /\ attempts[c] = 0 /\ timeouts[c] = 0
                /\ IF start_mark[c].open
                   THEN result[c].kind = "TimeoutError" /\ nwrites[c] = 1
                   ELSE result[c].kind = "PortNotOpenError" /\ nwrites[c] = 0)
    /\ [][\A c \in Callers :
            (cop[c] = "send" /\ cpc[c] # "idle" /\ ~start_mark[c].alive) =>
                event_packets' = event_packets /\ returned' = returned]_vars

\* C34 witness: the reader has ended, the port is open and the queue holds
\* an event; the send has written its command and raised TimeoutError, and
\* the event is still queued.
C34_Witness ==
    /\ SendEnded("c1") /\ ~start_mark["c1"].alive /\ start_mark["c1"].open
    /\ result["c1"].kind = "TimeoutError"
    /\ nwrites["c1"] = 1 /\ attempts["c1"] = 0
    /\ event_packets[1] # <<>>

\* ------------------------------------------------- calls from a callback
\* One transport on port p1 with both callbacks, its reader, a thread c1
\* that retrieves, and callbacks that may call retrieve_packet or
\* send_command on the same transport.  A call made by a callback runs on
\* the reader thread, inside "with self._data_lock" of _read: its steps are
\* those of the caller InCallback, taken only while the reader is in the
\* callback, and the callback returns only when its call has ended.
InCallback == "c2"

InitCallback ==
    /\ Quiet
    /\ instances = [p \in Ports |-> IF p = "p1" THEN 1 ELSE 0]
    /\ port_id = [t \in Inst |-> IF t = 1 THEN "p1" ELSE ""]
    /\ port_open = [t \in Inst |-> t = 1]
    /\ referenced = [t \in Inst |-> t = 1]
    /\ thread = [t \in Inst |-> IF t = 1 THEN "alive" ELSE "none"]
    /\ async_callback = [t \in Inst |-> t = 1]
    /\ evt_callback = [t \in Inst |-> t = 1]
    /\ retries = [t \in Inst |-> 0]
    /\ peer_left = MaxFrames + 1
    /\ ops_left = MaxOps
    /\ call = NoCall /\ ret = NoRet

RunningCallback(t) == IsAlive(t) /\ rpc[t] = "cb"

\* The callback calls self.retrieve_packet() or self.send_command(pkt).
CallbackCalls ==
    /\ RunningCallback(1)
    /\ \/ RetrievePacket(InCallback, 1)
       \/ \E pkt \in CmdPkts : SendCommand(InCallback, 1, pkt)

\* The steps of the call the callback made.
CallbackCallStep ==
    /\ RunningCallback(1)
    /\ \/ RetrieveStep(InCallback)
       \/ WriteFlush(InCallback)
       \/ WritePort(InCallback)
       \/ WriteLoop(InCallback)

\* The reader's steps; the callback returns once the call it made has ended.
ReaderOrCallback ==
    \/ ReaderLoop(1)
    \/ ReaderPoll(1)
    \/ ReaderType(1)
    \/ ReaderHdr(1)
    \/ ReaderPayload(1)
    \/ ReaderLock(1)
    \/ ReaderDispatch(1)
    \/ cpc[InCallback] = "idle" /\ ReaderCallbackReturn(1)

NextCallback ==
    \/ ReaderOrCallback
    \/ CallbackCalls
    \/ CallbackCallStep
    \/ RetrievePacket("c1", 1)
    \/ RetrieveStep("c1")
    \/ PeerRespond("p1")
    \/ \E f \in UnsolicitedFrames \ {HardwareErrorFrame} : PeerSend("p1", f)

SpecCallback == InitCallback /\ [][NextCallback]_vars

\* C35: while a callback runs, the reader holds the data lock and not the
\* port lock, and no step changes the completion queue or what has been
\* returned; and a retrieve or send made from inside a callback never
\* returns an event: when it ends, it ends with TimeoutError.
C35_CallbackHoldsDataLock ==
    /\ [](RunningCallback(1) => data_lock[1] = "reader" /\ port_lock[1] # "reader")
    /\ [][RunningCallback(1) =>
            event_packets'[1] = event_packets[1] /\ returned'[1] = returned[1]]_vars
    /\ [](result[InCallback].kind \in {"none", "TimeoutError"})

\* C35 witness: the callback's retrieve has seen the queued event, left its
\* loop and waits for the data lock that its own thread holds.
C35_Witness ==
    /\ RunningCallback(1)
    /\ cop[InCallback] = "retrieve" /\ cpc[InCallback] = "rlock"
    /\ data_lock[1] = "reader"
    /\ event_packets[1] # <<>>

\* ------------------------------------------------------------ ble_hci.py
\* BleHci: one thread, its own port.  A Python argument is None, an int or
\* a list of ints (NoParams, IntParam, ListParams); an int used as a bit
\* mask is the set of the positions of its 1 bits.
PHY_1M == 0
PHY_2M == 1
PHY_S8 == 2
PHY_S2 == 3

\* CommandPacket(ogf, ocf, third, params=kwparams) as Python binds it to
\* __init__(self, ogf, ocf, params=None): a third positional argument is
\* params, and params given by keyword as well is a TypeError ("got
\* multiple values for argument 'params'").  kwparams is None or Some(p).
CommandPacketNew(third, kwparams) ==
    IF kwparams # None THEN Error("TypeError")
    ELSE Value([params |-> third])

\* per = None,   (the comma makes it the tuple (None,))
TupleOfNone == [type |-> "tuple", v |-> <<NoParams>>]

\* _parse_conn_stats_evt(evt): evt.return_vals is no attribute of
\* EventPacket (nor of None); only ValueError is caught.
ParseConnStatsEvt == Error("AttributeError")

\* while per is None and retries > 0: evt = self._send_command(cmd);
\* per = self._parse_conn_stats_evt(evt); retries -= 1
RECURSIVE ConnStatsLoop(_, _, _)
ConnStatsLoop(per, retries_left, sends) ==
    IF per = NoParams /\ retries_left > 0
    THEN IF ParseConnStatsEvt.kind = "error"
         THEN [ret |-> ParseConnStatsEvt, sends |-> sends + 1]
         ELSE ConnStatsLoop(ParseConnStatsEvt.v, retries_left - 1, sends + 1)
    ELSE [ret |-> Value(per), sends |-> sends]

\* BleHci.get_connection_stats(reretries_left)
GetConnectionStats(retries_left) ==
    LET cmd == CommandPacketNew(IntParam(0), None) IN
    IF cmd.kind = "error" THEN [ret |-> cmd, sends |-> 0]
    ELSE ConnStatsLoop(TupleOfNone, retries_left, 0)

\* BleHci.set_phy(phy): params[2], params[3], params[4] by the if chain,
\* then the CommandPacket, then the send.
SetPhy(phy) ==
    LET tx_rx == IF phy = PHY_2M THEN 2
                 ELSE IF phy = PHY_S8 \/ phy = PHY_S2 THEN 4
                 ELSE 0
        options == IF phy = PHY_S8 THEN 2 ELSE IF phy = PHY_S2 THEN 1 ELSE 0
        params == <<0, 0, tx_rx, tx_rx, options>>
        cmd == CommandPacketNew(IntParam(7), Some(ListParams(params)))
    IN [params |-> params,
        warned |-> phy \notin {PHY_1M, PHY_2M, PHY_S8, PHY_S2},
        ret |-> IF cmd.kind = "error" THEN cmd ELSE Value(cmd.v.params),
        sends |-> IF cmd.kind = "error" THEN 0 ELSE 1]

\* channel_mask | (1 << chan) for each chan of the list: TypeError for a
\* chan that is None, ValueError for a negative shift count.
RECURSIVE OrChannels(_, _)
OrChannels(channel_mask, channels) ==
    IF channels = <<>> THEN Value(channel_mask)
    ELSE IF Head(channels) = NoParams THEN Error("TypeError")
    ELSE IF Head(channels).v[1] < 0 THEN Error("ValueError")
    ELSE OrChannels(channel_mask \cup {Head(channels).v[1]}, Tail(channels))

\* The int whose 1 bits are at the positions listed.
Bits(b) == {b[i] : i \in 1..Len(b)}

\* BleHci.set_channel_map(channels, mask): channels that is no list is
\* wrapped into one first, so the tests "channels is None" and
\* "channels == 0" that follow are made on a list.
SetChannelMap(channels, mask) ==
    LET wrapped == IF channels.type = "list"
                   THEN [i \in 1..Len(channels.v) |-> IntParam(channels.v[i])]
                   ELSE <<channels>>
        channel_mask == IF mask = NoParams
                        THEN OrChannels({0}, wrapped)
                        ELSE Value(Bits(mask.v))
        cmd == CommandPacketNew(IntParam(10), Some(channel_mask))
    IN IF channel_mask.kind = "error"
       THEN [channel_mask |-> channel_mask, ret |-> channel_mask, sends |-> 0]
       ELSE [channel_mask |-> Value(channel_mask.v \ {37, 38, 39}),
             ret |-> IF cmd.kind = "error" THEN cmd ELSE Value(cmd.v.params),
             sends |-> IF cmd.kind = "error" THEN 0 ELSE 1]

\* The calls made: retries 0..MaxStatRetries; phy from -1 to 5; channels
\* None, one channel or a list of up to MaxChannels channels; mask None or
\* a mask given as the list of its bits.
MaxStatRetries == 3
MaxChannels == 2
ChannelValues == {0, 1, 5, 36, 37, 39}
MaskValues == {<<>>, <<0, 1>>, <<5, 36>>, <<36, 37, 38, 39>>,
               [i \in 1..40 |-> i - 1]}
BitMask(b) == [type |-> "mask", v |-> b]

BleHciCalls ==
    {[fn |-> "get_connection_stats", retries |-> n] : n \in 0..MaxStatRetries}
    \cup {[fn |-> "set_phy", phy |-> p] : p \in (0 - 1)..5}
    \cup {[fn |-> "set_channel_map", channels |-> ch, mask |-> m] :
            ch \in {NoParams} \cup {IntParam(c) : c \in ChannelValues}
                   \cup {ListParams(l) : l \in ByteSeqs(ChannelValues, MaxChannels)},
            m \in {NoParams} \cup {BitMask(b) : b \in MaskValues}}

GetConnectionStatsCall ==
    /\ call.fn = "get_connection_stats" /\ ret = NoRet
    /\ ret' = GetConnectionStats(call.retries)
    /\ UNCHANGED <<call, transportVars>>

SetPhyCall ==
    /\ call.fn = "set_phy" /\ ret = NoRet
    /\ ret' = SetPhy(call.phy)
    /\ UNCHANGED <<call, transportVars>>

SetChannelMapCall ==
    /\ call.fn = "set_channel_map" /\ ret = NoRet
    /\ ret' = SetChannelMap(call.channels, call.mask)
    /\ UNCHANGED <<call, transportVars>>

NextBleHci == GetConnectionStatsCall \/ SetPhyCall \/ SetChannelMapCall

SpecBleHci == InitCall(BleHciCalls) /\ [][NextBleHci]_vars

\* C36: get_connection_stats(retries=N) with N > 0 sends its command at
\* least once and at most N times, and returns a PER (a number) or, after N
\* sends, None.
C36_ConnStatsAttempts ==
    (call.fn = "get_connection_stats" /\ ret # NoRet /\ call.retries > 0) =>
        /\ ret.sends \in 1..call.retries
        /\ ret.ret.kind = "value"
        /\ \/ ret.ret.v.type = "int"
           \/ ret.ret.v = NoParams /\ ret.sends = call.retries

\* C37: set_phy chooses the parameters documented for its phy
\* argument: 1 the 1M PHY (TX/RX 0, options 0), 2 the 2M PHY (TX/RX 2),
\* 3 coded S8 (TX/RX 4, options 2), 4 coded S2 (TX/RX 4, options 1), any
\* other value a warning and the 1M parameters.
C37_SetPhyMapping ==
    (call.fn = "set_phy" /\ ret # NoRet) =>
        /\ ret.params =
              (IF call.phy = 2 THEN <<0, 0, 2, 2, 0>>
               ELSE IF call.phy = 3 THEN <<0, 0, 4, 4, 2>>
               ELSE IF call.phy = 4 THEN <<0, 0, 4, 4, 1>>
               ELSE <<0, 0, 0, 0, 0>>)
        /\ ret.warned <=> call.phy \notin {1, 2, 3, 4}

\* C38: set_channel_map computes as its channel mask the mask given, or all
\* channels when neither channels nor mask is given, or channels 0 and 1
\* when channels is 0, or bit 0 and the bit of each channel listed; always
\* without bits 37 to 39.
C38_ChannelMask ==
    (call.fn = "set_channel_map" /\ ret # NoRet) =>
        /\ ret.channel_mask =
              Value((IF call.mask # NoParams THEN Bits(call.mask.v)
                     ELSE IF call.channels = NoParams THEN 0..39
                     ELSE IF call.channels = IntParam(0) THEN {0, 1}
                     ELSE {0} \cup {call.channels.v[i] : i \in 1..Len(call.channels.v)})
                    \ {37, 38, 39})

====
